---- MODULE Spec2Model ----
(***************************************************************************)
(* Model of the mining plugin: the mining coordinator (worker threads,     *)
(* nonce partitioning, batched hash counters), the pool manager (registry, *)
(* selection, failover) and the hash-rate monitor (bounded sample window). *)
(* Each subsystem has its own specification; the variables of the other    *)
(* subsystems stay at their initial values.                                *)
(***************************************************************************)
EXTENDS Integers, Sequences, FiniteSets, Bags, TLC

VARIABLES
    \* ---- MiningCoordinator (impl/coordinator.rs) ----
    config,         \* MiningConfig fields read by start
    physical_cores, \* hardware.physical_cores
    running,        \* AtomicBool
    total_hashes,   \* AtomicU64
    shares_found,   \* AtomicU64
    workers,        \* bag of the mining_thread instances that have not ended
    callers,        \* per calling thread: position inside start()
    call_ret,       \* result of the start() call that returned last
    last_spawn,     \* history: nonce ranges assigned by the last spawn loop
    iters,          \* history: nonce iterations performed by all workers
    starts_ok,      \* history: start() calls that returned Ok since the last stop()
    fresh,          \* the calling threads whose start() has not yet passed the running check
    \* ---- PoolManager (impl/pool_management.rs) ----
    pools,            \* pool id -> PoolState
    active_pool,      \* None or the id of the active pool
    failover_history, \* sequence of FailoverEvent
    pm_ret,           \* the result of the PoolManager call that returned last
    pm_ops,           \* history: the number of PoolManager calls made
    pm_calls,         \* per calling thread: the PoolManager call it is part-way through
    \* ---- HashRateMonitor (impl/hash_rate_monitor.rs) ----
    now,               \* the monotonic clock read by Instant::now(), in seconds
    samples,           \* VecDeque<HashRateSample>, oldest first
    last_sample_time,  \* None or an instant
    last_hash_count,
    mon_total_hashes,  \* HashRateMonitor.total_hashes
    start_time,        \* None or an instant
    peak_hash_rate,
    min_hash_rate,
    alerts,            \* Vec<Alert>
    mon_ret,           \* the result of the record call that returned last
    samples_added,     \* history: every sample pushed since the deque was last cleared
    mon_calls,         \* per calling thread: the record call it is part-way through
    \* ---- RewardDistributor (impl/reward_distribution.rs) ----
    rd_config,         \* RewardConfig
    rd_workers,        \* HashMap<String, WorkerStats>
    shares,            \* Vec<Share>
    blocks,            \* Vec<BlockReward>
    payouts,           \* Vec<Payout>
    share_counter,
    payout_counter,
    current_height,
    rd_now,            \* the monotonic clock read by the distributor, in seconds
    rs_calls,          \* record_share calls under way: their share and position
    cp_calls,          \* create_payout calls under way: the payout not yet pushed
    share_ret,         \* the result of the record_share call that returned last
    calc_ret,          \* the result of the calculate_rewards call that returned last
    stats_ret,         \* the result of the pool_stats call that returned last
    confirm_ret,       \* the result of the update_confirmations call that returned last
    payout_ret,        \* the result of the create_payout call that returned last
    complete_ret,      \* the result of the complete_payout call that returned last
    rd_ops,            \* history: the number of distributor calls begun
    credited,          \* history: the sats distribute_rewards has credited per worker
    lk_held,           \* per Mutex of the distributor: the thread that holds its guard
    lk_pc,             \* per thread: the distributor call it is in and the position
    lk_ops,            \* history: the number of distributor calls begun by the threads
    plug_config,       \* MiningPlugin.config
    coordinator,       \* MiningPlugin.coordinator: Option<MiningCoordinator>
    stratum_client,    \* MiningPlugin.stratum_client: Option<StratumClient>
    plug_ret,          \* the result of the plugin call that returned last
    thread_ret,        \* the last effective_thread_count call: its argument and result
    released,          \* history: the coordinator stop_background_mining released last
    plug_ops           \* history: the number of plugin calls made

coordVars == <<config, physical_cores, running, total_hashes, shares_found,
               workers, callers, call_ret, last_spawn, iters, starts_ok, fresh>>

poolVars == <<pools, active_pool, failover_history, pm_ret, pm_ops, pm_calls>>

monVars == <<now, samples, last_sample_time, last_hash_count, mon_total_hashes,
             start_time, peak_hash_rate, min_hash_rate, alerts, mon_ret, samples_added,
             mon_calls>>

rdVars == <<rd_config, rd_workers, shares, blocks, payouts, share_counter,
            payout_counter, current_height, rd_now, rs_calls, cp_calls, share_ret,
            calc_ret, stats_ret, confirm_ret, payout_ret, complete_ret, rd_ops, credited>>

lockVars == <<lk_held, lk_pc, lk_ops>>

plugVars == <<plug_config, coordinator, stratum_client, plug_ret, thread_ret, released,
              plug_ops>>

vars == <<coordVars, poolVars, monVars, rdVars, lockVars, plugVars>>

\* ------------------------------------------------------------------------
\* Bounds
\* ------------------------------------------------------------------------
\* largest nonce, u32::MAX scaled down
NonceMax == 4
\* size of the hash batch, scaled down from 1000
BatchSize == 2
\* PoolManagerConfig.max_pools of the modelled manager
MaxPools == 2
\* PoolManager calls made in one behaviour
MaxOps == 6
\* HashRateMonitorConfig.max_samples of the modelled monitor, scaled down from 3600
MaxSamples == 2
\* HashRateMonitorConfig.min_samples_for_stats, scaled down from 10
MinSamplesForStats == 2
\* the last instant of the clock, in seconds
MaxTime == 4
\* writing RewardDistributor calls begun in one behaviour
RdMaxOps == 5
\* the same, where rewards are calculated
RewardMaxOps == 4

Min(a, b) == IF a < b THEN a ELSE b
Max(a, b) == IF a > b THEN a ELSE b

\* ------------------------------------------------------------------------
\* f64 arithmetic
\* ------------------------------------------------------------------------
RECURSIVE Pow(_, _)
Pow(b, e) == IF e = 0 THEN 1 ELSE b * Pow(b, e - 1)

\* an f64 above 0 is held as its 53 significant binary digits, in four
\* digits of base Limb (l3 the first 8 binary digits, at least 128), and the
\* exponent e of its last binary digit: l3 l2 l1 l0 * 2^e
Limb == 32768

RECURSIVE NormShift(_, _)
\* the least k with part * 2^k >= whole, for 0 < part <= whole
NormShift(part, whole) == IF part >= whole THEN 0 ELSE 1 + NormShift(2 * part, whole)

RECURSIVE BitLen(_)
\* the number of binary digits of n
BitLen(n) == IF n = 0 THEN 0 ELSE 1 + BitLen(n \div 2)

\* the f64 x, or the next f64 above it when `up`
IncF64(x, up) ==
    IF ~up THEN x
    ELSE LET a0 == x.l0 + 1
             a1 == x.l1 + a0 \div Limb
             a2 == x.l2 + a1 \div Limb
             a3 == x.l3 + a2 \div Limb
         IN IF a3 = 256
            THEN [l3 |-> 128, l2 |-> 0, l1 |-> 0, l0 |-> 0, e |-> x.e + 1]
            ELSE [l3 |-> a3, l2 |-> a2 % Limb, l1 |-> a1 % Limb, l0 |-> a0 % Limb,
                  e |-> x.e]

\* share.difficulty / total_difficulty in f64, for whole numbers
\* 0 < part <= whole < 2 * Limb: the quotient's first 53 binary digits by long
\* division, rounded to nearest, ties to even (IEEE 754)
DivF64(part, whole) ==
    LET k == NormShift(part, whole)
        r0 == part * Pow(2, k) - whole
        q3 == (r0 * 128) \div whole
        r1 == (r0 * 128) % whole
        q2 == (r1 * Limb) \div whole
        r2 == (r1 * Limb) % whole
        q1 == (r2 * Limb) \div whole
        r3 == (r2 * Limb) % whole
        q0 == (r3 * Limb) \div whole
        r4 == (r3 * Limb) % whole
        half == 2 * r4 >= whole
        rest == (IF half THEN 2 * r4 - whole ELSE 2 * r4) # 0
    IN IncF64([l3 |-> 128 + q3, l2 |-> q2, l1 |-> q1, l0 |-> q0, e |-> 0 - 52 - k],
              half /\ (rest \/ q0 % 2 = 1))

\* distributable as f64 * proportion, for 0 < distributable < Limb: the exact
\* product, rounded to 53 binary digits, to nearest, ties to even
MulF64(distributable, x) ==
    LET p0 == x.l0 * distributable
        p1 == x.l1 * distributable + p0 \div Limb
        p2 == x.l2 * distributable + p1 \div Limb
        p3 == x.l3 * distributable + p2 \div Limb
        s == BitLen(p3) - 8
        w == Pow(2, s)
        v == Limb \div w
        rem == (p0 % Limb) % w
        y == [l3 |-> p3 \div w,
              l2 |-> (p2 % Limb) \div w + (p3 % w) * v,
              l1 |-> (p1 % Limb) \div w + ((p2 % Limb) % w) * v,
              l0 |-> (p0 % Limb) \div w + ((p1 % Limb) % w) * v,
              e |-> x.e + s]
    IN IncF64(y, 2 * rem > w \/ (s > 0 /\ 2 * rem = w /\ y.l0 % 2 = 1))

\* x as u64, for x < 2^23: the cast drops the digits after the binary point
TruncF64(x) ==
    LET t == 53 + x.e
    IN IF t <= 0 THEN 0
       ELSE IF t <= 8 THEN x.l3 \div Pow(2, 8 - t)
       ELSE x.l3 * Pow(2, t - 8) + x.l2 \div Pow(2, 23 - t)

\* ------------------------------------------------------------------------
\* Mining coordinator
\* ------------------------------------------------------------------------
\* nonce arithmetic wraps at the width of the nonce
NonceMod == NonceMax + 1

Callers == {"t1", "t2"}

\* configurations the coordinator is constructed with
CoordConfigs ==
    { [thread_count |-> 0, max_cpu_percentage |-> 100],
      [thread_count |-> 1, max_cpu_percentage |-> 50] }

\* physical core counts of the detected hardware (suitable hardware has >= 2)
CoreCounts == {2, 3}

\* jobs handed to start: the set of nonces whose double SHA-256 meets the target
Jobs == { {}, {1, NonceMax} }

\* an auto-detected count that rounds up
auto_target_ceil(available_cores, max_cpu_percentage) ==
    (available_cores * max_cpu_percentage + 99) \div 100

\* effective_thread_count, auto-detect:
\* (available_cores as f64 * (max_cpu_percentage as f64 / 100.0)) as usize,
\* the division and the product rounded as f64 rounds them, the cast
\* truncating
auto_target(available_cores, max_cpu_percentage) ==
    IF available_cores = 0 \/ max_cpu_percentage = 0 THEN 0
    ELSE TruncF64(MulF64(available_cores, DivF64(max_cpu_percentage, 100)))

\* MiningConfig::effective_thread_count
effective_thread_count(cfg, available_cores) ==
    IF cfg.thread_count > 0
    THEN Min(cfg.thread_count, available_cores)
    ELSE Max(auto_target(available_cores, cfg.max_cpu_percentage), 1)

\* start: nonce_range = u32::MAX / thread_count
nonce_range_of(thread_count) == NonceMax \div thread_count

\* start: start_nonce of worker thread_id
start_nonce_of(thread_id, thread_count) ==
    (thread_id * nonce_range_of(thread_count)) % NonceMod

end_nonce_overlap(thread_id, thread_count) ==
    IF thread_id = thread_count - 1
    THEN NonceMax
    ELSE (start_nonce_of(thread_id, thread_count) + nonce_range_of(thread_count)) % NonceMod

\* start: end_nonce of worker thread_id
end_nonce_of(thread_id, thread_count) ==
    IF thread_id = thread_count - 1
    THEN NonceMax
    ELSE (start_nonce_of(thread_id, thread_count) + nonce_range_of(thread_count) - 1) % NonceMod

\* an increment that leaves the nonce where it is
saturating_stay(n) == n

\* u32::saturating_add(1)
saturating_add1(n) == Min(n + 1, NonceMax)

\* the worker spawned by start for thread_id, before its first step
NewWorker(thread_id, thread_count, job) ==
    [ start_nonce |-> start_nonce_of(thread_id, thread_count),
      end_nonce   |-> end_nonce_of(thread_id, thread_count),
      nonce       |-> start_nonce_of(thread_id, thread_count),
      batch_count |-> 0,
      valid       |-> job,
      pc          |-> "check",
      stopped     |-> FALSE,   \* history: stop() was called after the spawn
      after       |-> 0 ]      \* history: nonce steps performed after that stop()

RECURSIVE SpawnedWorkers(_, _, _)
\* start: the workers spawned for thread_id in 0..n-1
SpawnedWorkers(n, thread_count, job) ==
    IF n = 0 THEN EmptyBag
    ELSE SpawnedWorkers(n - 1, thread_count, job)
           (+) SetToBag({NewWorker(n - 1, thread_count, job)})

\* start: the (start_nonce, end_nonce) pairs of one spawn loop
AssignedRanges(thread_count) ==
    { [thread_id   |-> i,
       start_nonce |-> start_nonce_of(i, thread_count),
       end_nonce   |-> end_nonce_of(i, thread_count)] : i \in 0..(thread_count - 1) }

CoordInit ==
    /\ config \in CoordConfigs
    /\ physical_cores \in CoreCounts
    /\ running = FALSE
    /\ total_hashes = 0
    /\ shares_found = 0
    /\ workers = EmptyBag
    /\ callers = [c \in Callers |-> "idle"]
    /\ call_ret = "none"
    /\ last_spawn = {}
    /\ iters = 0
    /\ starts_ok = 0
    /\ fresh = Callers

\* a check that never finds the coordinator running
already_running_never(flag) == FALSE

\* start: `if self.running.load(Ordering::SeqCst)`
already_running(flag) == flag

\* start, first statement: the running check and the early return
StartCheck(c) ==
    /\ callers[c] = "idle"
    /\ IF already_running(running)
       THEN /\ call_ret' = "Err"
            /\ UNCHANGED <<callers, fresh>>
       ELSE /\ c \in fresh
            /\ callers' = [callers EXCEPT ![c] = "store"]
            /\ fresh' = fresh \ {c}
            /\ UNCHANGED call_ret
    /\ UNCHANGED <<config, physical_cores, running, total_hashes, shares_found,
                   workers, last_spawn, iters, starts_ok>>

\* start: running.store(true)
StartStore(c) ==
    /\ callers[c] = "store"
    /\ running' = TRUE
    /\ callers' = [callers EXCEPT ![c] = "spawn"]
    /\ UNCHANGED <<config, physical_cores, total_hashes, shares_found, workers,
                   call_ret, last_spawn, iters, starts_ok, fresh>>

\* start: the spawn loop and the Ok return
StartSpawn(c, job) ==
    /\ callers[c] = "spawn"
    /\ LET thread_count == effective_thread_count(config, physical_cores)
       IN /\ workers' = workers (+) SpawnedWorkers(thread_count, thread_count, job)
          /\ last_spawn' = AssignedRanges(thread_count)
    /\ callers' = [callers EXCEPT ![c] = "idle"]
    /\ call_ret' = "Ok"
    /\ starts_ok' = starts_ok + 1
    /\ UNCHANGED <<config, physical_cores, running, total_hashes, shares_found,
                   iters, fresh>>

\* the workers after worker w has moved to w2
MoveWorker(w, w2) == (workers (-) SetToBag({w})) (+) SetToBag({w2})

RECURSIVE MarkStopped(_)
\* history: every live worker has seen a stop() since its spawn
MarkStopped(b) ==
    IF b = EmptyBag THEN EmptyBag
    ELSE LET w == CHOOSE x \in BagToSet(b) : TRUE
             n == CopiesIn(w, b)
             one == SetToBag({[w EXCEPT !.stopped = TRUE]})
             RECURSIVE Times(_)
             Times(k) == IF k = 0 THEN EmptyBag ELSE one (+) Times(k - 1)
         IN Times(n) (+) MarkStopped([x \in (DOMAIN b) \ {w} |-> b[x]])

\* stop: running.store(false)
Stop(c) ==
    /\ callers[c] = "idle"
    /\ running' = FALSE
    /\ starts_ok' = 0
    /\ workers' = MarkStopped(workers)
    /\ UNCHANGED <<config, physical_cores, total_hashes, shares_found, callers,
                   call_ret, last_spawn, iters, fresh>>

\* mining_thread: the loop condition
WorkerCheck(w) ==
    /\ w.pc = "check"
    /\ workers' = MoveWorker(w, [w EXCEPT !.pc =
                     IF running /\ w.nonce < w.end_nonce THEN "body" ELSE "flush"])
    /\ UNCHANGED <<config, physical_cores, running, total_hashes, shares_found,
                   callers, call_ret, last_spawn, iters, starts_ok, fresh>>

\* mining_thread: one loop body (hash, target check, batch, next nonce)
WorkerBody(w) ==
    /\ w.pc = "body"
    /\ LET batch == w.batch_count + 1
           flush == batch >= BatchSize
       IN /\ shares_found' = IF w.nonce \in w.valid THEN shares_found + 1 ELSE shares_found
          /\ total_hashes' = IF flush THEN total_hashes + batch ELSE total_hashes
          /\ workers' = MoveWorker(w,
                 [w EXCEPT !.batch_count = IF flush THEN 0 ELSE batch,
                           !.nonce = saturating_add1(w.nonce),
                           !.pc = "check",
                           !.after = IF w.stopped THEN Min(w.after + 1, 2) ELSE 0])
    /\ iters' = iters + 1
    /\ UNCHANGED <<config, physical_cores, running, callers, call_ret, last_spawn,
                   starts_ok, fresh>>

FinalUpdateDropped(w) == 0

\* mining_thread: the amount the final update adds to total_hashes
FinalUpdate(w) == IF w.batch_count > 0 THEN w.batch_count ELSE 0

\* mining_thread: the final update after the loop, then the thread ends
WorkerFlush(w) ==
    /\ w.pc = "flush"
    /\ total_hashes' = total_hashes + FinalUpdate(w)
    /\ workers' = workers (-) SetToBag({w})
    /\ UNCHANGED <<config, physical_cores, running, shares_found, callers, call_ret,
                   last_spawn, iters, starts_ok, fresh>>

CoordNext ==
    \/ \E c \in Callers : StartCheck(c) /\ UNCHANGED <<poolVars, monVars, rdVars, lockVars, plugVars>>
    \/ \E c \in Callers : StartStore(c) /\ UNCHANGED <<poolVars, monVars, rdVars, lockVars, plugVars>>
    \/ \E c \in Callers, job \in Jobs : StartSpawn(c, job) /\ UNCHANGED <<poolVars, monVars, rdVars, lockVars, plugVars>>
    \/ \E c \in Callers : Stop(c) /\ UNCHANGED <<poolVars, monVars, rdVars, lockVars, plugVars>>
    \/ \E w \in BagToSet(workers) : WorkerCheck(w) /\ UNCHANGED <<poolVars, monVars, rdVars, lockVars, plugVars>>
    \/ \E w \in BagToSet(workers) : WorkerBody(w) /\ UNCHANGED <<poolVars, monVars, rdVars, lockVars, plugVars>>
    \/ \E w \in BagToSet(workers) : WorkerFlush(w) /\ UNCHANGED <<poolVars, monVars, rdVars, lockVars, plugVars>>

\* the coordinator in use when stop is never called
RunNext ==
    \/ \E c \in Callers : StartCheck(c) /\ UNCHANGED <<poolVars, monVars, rdVars, lockVars, plugVars>>
    \/ \E c \in Callers : StartStore(c) /\ UNCHANGED <<poolVars, monVars, rdVars, lockVars, plugVars>>
    \/ \E c \in Callers, job \in Jobs : StartSpawn(c, job) /\ UNCHANGED <<poolVars, monVars, rdVars, lockVars, plugVars>>
    \/ \E w \in BagToSet(workers) : WorkerCheck(w) /\ UNCHANGED <<poolVars, monVars, rdVars, lockVars, plugVars>>
    \/ \E w \in BagToSet(workers) : WorkerBody(w) /\ UNCHANGED <<poolVars, monVars, rdVars, lockVars, plugVars>>
    \/ \E w \in BagToSet(workers) : WorkerFlush(w) /\ UNCHANGED <<poolVars, monVars, rdVars, lockVars, plugVars>>

\* a step of some spawned worker thread
WorkerStep ==
    \E w \in BagToSet(workers) : WorkerCheck(w) \/ WorkerBody(w) \/ WorkerFlush(w)

\* the coordinator before any call, with one fixed configuration
CoordIdle ==
    /\ CoordInit
    /\ config = [thread_count |-> 0, max_cpu_percentage |-> 100]
    /\ physical_cores = 2

\* ------------------------------------------------------------------------
\* Pool manager
\* ------------------------------------------------------------------------
None == "none"
Some(x) == [tag |-> "Some", val |-> x]
RetNone == [tag |-> "None", val |-> ""]
Ok == [tag |-> "Ok", val |-> ""]
Err(kind) == [tag |-> "Err", val |-> kind]

PoolIds == {"a", "b", "c"}

\* PoolPriority discriminants
Primary == 0
Backup == 1
Emergency == 2

\* the pool configurations passed to add_pool
PoolConfigs ==
    { [id |-> "a", priority |-> Primary],
      [id |-> "b", priority |-> Primary],
      [id |-> "b", priority |-> Backup],
      [id |-> "c", priority |-> Backup],
      [id |-> "c", priority |-> Emergency] }

\* PoolStatus values
Status(kind, reason) == [kind |-> kind, reason |-> reason]
Disconnected == Status("Disconnected", "")
FailedStatus(reason) == Status("Failed", reason)

\* the statuses passed to update_status
StatusInputs ==
    { Status("Connected", ""), Status("Disabled", "maintenance"), FailedStatus("timeout") }

\* the reasons passed to failover
Reasons == {"lost", "stale"}

\* PoolState::new
PoolStateNew(cfg) ==
    [ priority         |-> cfg.priority,
      status           |-> Disconnected,
      shares_submitted |-> 0,
      shares_accepted  |-> 0,
      shares_rejected  |-> 0 ]

\* PoolState::acceptance_rate, as the fraction num/den
acceptance_rate(p) ==
    IF p.shares_submitted = 0
    THEN [num |-> 1, den |-> 1]
    ELSE [num |-> p.shares_accepted, den |-> p.shares_submitted]

\* Ord::cmp on integers
IntCmp(x, y) == IF x < y THEN "Less" ELSE IF x > y THEN "Greater" ELSE "Equal"

\* f64::partial_cmp on two acceptance rates
RateCmp(x, y) == IntCmp(x.num * y.den, y.num * x.den)

\* select_best_pool: the filter on the status
IsCandidate(p) == p.status.kind \notin {"Failed", "Disabled"}

pool_cmp_ascending(a, b) ==
    IF IntCmp(a.priority, b.priority) = "Equal"
    THEN RateCmp(acceptance_rate(a), acceptance_rate(b))
    ELSE IntCmp(a.priority, b.priority)

\* select_best_pool: the sort_by closure
pool_cmp(a, b) ==
    IF IntCmp(a.priority, b.priority) = "Equal"
    THEN RateCmp(acceptance_rate(b), acceptance_rate(a))
    ELSE IntCmp(a.priority, b.priority)

RECURSIVE InsertSorted(_, _, _)
\* stable insertion of id x into the sorted sequence of ids
InsertSorted(P, sorted, x) ==
    IF sorted = << >> THEN << x >>
    ELSE IF pool_cmp(P[x], P[Head(sorted)]) = "Less"
         THEN << x >> \o sorted
         ELSE << Head(sorted) >> \o InsertSorted(P, Tail(sorted), x)

RECURSIVE SortBy(_, _)
\* slice::sort_by (stable) of a sequence of ids by pool_cmp
SortBy(P, ids) ==
    IF ids = << >> THEN << >>
    ELSE InsertSorted(P, SortBy(P, SubSeq(ids, 1, Len(ids) - 1)), ids[Len(ids)])

RECURSIVE IterationOrders(_)
\* the orders in which a HashMap with key set S may be iterated
IterationOrders(S) ==
    IF S = {} THEN { << >> }
    ELSE UNION { { << x >> \o o : o \in IterationOrders(S \ {x}) } : x \in S }

\* select_best_pool on registry P iterated in the given order
select_best_pool(P, order) ==
    LET candidates == SelectSeq(order, LAMBDA id : IsCandidate(P[id]))
    IN IF candidates = << >> THEN RetNone
       ELSE Some(Head(SortBy(P, candidates)))

\* the threads that call the PoolManager concurrently
PoolThreads == {"t1", "t2"}

\* a thread that is in no PoolManager call
PmIdle == [pc |-> "idle", id |-> "", cur |-> None, reason |-> ""]

PoolIdle ==
    /\ pools = << >>
    /\ active_pool = None
    /\ failover_history = << >>
    /\ pm_ret = Ok
    /\ pm_ops = 0
    /\ pm_calls = [t \in PoolThreads |-> PmIdle]

PoolInit == PoolIdle

\* HashMap::insert
MapInsert(P, id, st) == [k \in (DOMAIN P) \cup {id} |-> IF k = id THEN st ELSE P[k]]

\* HashMap::remove
MapRemove(P, id) == [k \in (DOMAIN P) \ {id} |-> P[k]]

PoolLimitExceeded(n) == n > MaxPools

\* add_pool: the check of the registry size against max_pools
PoolLimitReached(n) == n >= MaxPools

\* add_pool
AddPool(cfg) ==
    /\ IF PoolLimitReached(Cardinality(DOMAIN pools))
       THEN /\ pm_ret' = Err("Configuration")
            /\ UNCHANGED pools
       ELSE /\ pools' = MapInsert(pools, cfg.id, PoolStateNew(cfg))
            /\ pm_ret' = Ok
    /\ UNCHANGED <<active_pool, failover_history>>

\* remove_pool
RemovePool(id) ==
    /\ IF id \notin DOMAIN pools
       THEN /\ pm_ret' = Err("PoolConnection")
            /\ UNCHANGED <<pools, active_pool>>
       ELSE /\ pools' = MapRemove(pools, id)
            /\ active_pool' = IF active_pool = id THEN None ELSE active_pool
            /\ pm_ret' = Ok
    /\ UNCHANGED failover_history

\* set_active_pool
SetActivePool(id) ==
    /\ IF id \notin DOMAIN pools
       THEN /\ pm_ret' = Err("PoolConnection")
            /\ UNCHANGED active_pool
       ELSE /\ active_pool' = id
            /\ pm_ret' = Ok
    /\ UNCHANGED <<pools, failover_history>>

\* update_status
UpdateStatus(id, status) ==
    /\ IF id \notin DOMAIN pools
       THEN /\ pm_ret' = Err("PoolConnection")
            /\ UNCHANGED pools
       ELSE /\ pools' = [pools EXCEPT ![id].status = status]
            /\ pm_ret' = Ok
    /\ UNCHANGED <<active_pool, failover_history>>

SharesRecordedBoth(p, accepted) ==
    [p EXCEPT !.shares_submitted = @ + 1,
              !.shares_accepted = @ + 1,
              !.shares_rejected = IF accepted THEN @ ELSE @ + 1]

\* record_share: the counters of the pool after the share
SharesRecorded(p, accepted) ==
    [p EXCEPT !.shares_submitted = @ + 1,
              !.shares_accepted = IF accepted THEN @ + 1 ELSE @,
              !.shares_rejected = IF accepted THEN @ ELSE @ + 1]

\* record_share
RecordShare(id, accepted) ==
    /\ IF id \notin DOMAIN pools
       THEN /\ pm_ret' = Err("PoolConnection")
            /\ UNCHANGED pools
       ELSE /\ pools' = [pools EXCEPT ![id] = SharesRecorded(pools[id], accepted)]
            /\ pm_ret' = Ok
    /\ UNCHANGED <<active_pool, failover_history>>

\* select_best_pool
SelectBestPool ==
    /\ \E order \in IterationOrders(DOMAIN pools) :
          pm_ret' = select_best_pool(pools, order)
    /\ UNCHANGED <<pools, active_pool, failover_history>>

FailoverEventFromNew(current, to, reason) ==
    [from_pool |-> to, to_pool |-> to, reason |-> reason]

\* failover: the FailoverEvent pushed to the history
FailoverEvent(current, to, reason) ==
    [from_pool |-> current, to_pool |-> to, reason |-> reason]

\* failover
Failover(reason) ==
    /\ IF active_pool # None /\ active_pool \notin DOMAIN pools
       THEN \* update_status fails and the error is propagated
            /\ pm_ret' = Err("PoolConnection")
            /\ UNCHANGED <<pools, active_pool, failover_history>>
       ELSE LET marked == IF active_pool = None THEN pools
                          ELSE [pools EXCEPT ![active_pool].status = FailedStatus(reason)]
            IN \E order \in IterationOrders(DOMAIN pools) :
                 LET new_pool == select_best_pool(marked, order)
                 IN /\ pools' = marked
                    /\ pm_ret' = new_pool
                    /\ IF new_pool.tag = "Some"
                       THEN /\ active_pool' = new_pool.val
                            /\ failover_history' = Append(failover_history,
                                   FailoverEvent(active_pool, new_pool.val, reason))
                       ELSE UNCHANGED <<active_pool, failover_history>>

\* PoolManagerConfig::default().min_acceptance_rate, 0.95 as a fraction
MinAcceptanceRate == [num |-> 95, den |-> 100]

is_healthy_rate_only(p) == RateCmp(acceptance_rate(p), MinAcceptanceRate) # "Less"

\* health_check: the test that puts a pool into healthy_pools
is_healthy(p) ==
    /\ RateCmp(acceptance_rate(p), MinAcceptanceRate) # "Less"
    /\ p.status.kind \notin {"Failed", "Disabled"}

\* HealthCheckResult without its timestamp
HealthCheckResult(healthy, unhealthy) ==
    [tag |-> "Health", val |-> "", healthy_pools |-> healthy, unhealthy_pools |-> unhealthy]

\* health_check: pools.values() is walked in some order and every pool pushed to one list
HealthCheck ==
    /\ \E order \in IterationOrders(DOMAIN pools) :
          pm_ret' = HealthCheckResult(SelectSeq(order, LAMBDA id : is_healthy(pools[id])),
                                      SelectSeq(order, LAMBDA id : ~is_healthy(pools[id])))
    /\ UNCHANGED <<pools, active_pool, failover_history>>

\* one more PoolManager call is made
PoolCall ==
    /\ pm_ops < MaxOps
    /\ pm_ops' = pm_ops + 1
    /\ UNCHANGED pm_calls

PoolNext ==
    \/ \E cfg \in PoolConfigs : PoolCall /\ AddPool(cfg) /\ UNCHANGED <<coordVars, monVars, rdVars, lockVars, plugVars>>
    \/ \E id \in PoolIds : PoolCall /\ RemovePool(id) /\ UNCHANGED <<coordVars, monVars, rdVars, lockVars, plugVars>>
    \/ \E id \in PoolIds : PoolCall /\ SetActivePool(id) /\ UNCHANGED <<coordVars, monVars, rdVars, lockVars, plugVars>>
    \/ \E id \in PoolIds, st \in StatusInputs : PoolCall /\ UpdateStatus(id, st) /\ UNCHANGED <<coordVars, monVars, rdVars, lockVars, plugVars>>
    \/ \E id \in PoolIds, accepted \in BOOLEAN : PoolCall /\ RecordShare(id, accepted) /\ UNCHANGED <<coordVars, monVars, rdVars, lockVars, plugVars>>
    \/ PoolCall /\ SelectBestPool /\ UNCHANGED <<coordVars, monVars, rdVars, lockVars, plugVars>>
    \/ \E reason \in Reasons : PoolCall /\ Failover(reason) /\ UNCHANGED <<coordVars, monVars, rdVars, lockVars, plugVars>>

\* the PoolManager calls together with health_check
HealthNext ==
    \/ \E cfg \in PoolConfigs : PoolCall /\ AddPool(cfg) /\ UNCHANGED <<coordVars, monVars, rdVars, lockVars, plugVars>>
    \/ \E id \in PoolIds : PoolCall /\ RemovePool(id) /\ UNCHANGED <<coordVars, monVars, rdVars, lockVars, plugVars>>
    \/ \E id \in PoolIds : PoolCall /\ SetActivePool(id) /\ UNCHANGED <<coordVars, monVars, rdVars, lockVars, plugVars>>
    \/ \E id \in PoolIds, st \in StatusInputs : PoolCall /\ UpdateStatus(id, st) /\ UNCHANGED <<coordVars, monVars, rdVars, lockVars, plugVars>>
    \/ \E id \in PoolIds, accepted \in BOOLEAN : PoolCall /\ RecordShare(id, accepted) /\ UNCHANGED <<coordVars, monVars, rdVars, lockVars, plugVars>>
    \/ \E reason \in Reasons : PoolCall /\ Failover(reason) /\ UNCHANGED <<coordVars, monVars, rdVars, lockVars, plugVars>>
    \/ PoolCall /\ HealthCheck /\ UNCHANGED <<coordVars, monVars, rdVars, lockVars, plugVars>>

\* ---- PoolManager calls of concurrent threads, one step per lock acquisition ----
\* the number of concurrent PoolManager calls that are begun
ConcMaxOps == 4

\* the pools mutex is free: remove_pool holds it from the removal until it returns
PoolsLockFree == \A t \in PoolThreads : pm_calls[t].pc # "remove_clear"

\* thread t begins a call
ConcBegin(t) ==
    /\ pm_calls[t].pc = "idle"
    /\ pm_ops < ConcMaxOps
    /\ pm_ops' = pm_ops + 1

\* thread t moves to position pc of its call
PmAt(t, pc, id, cur, reason) ==
    pm_calls' = [pm_calls EXCEPT ![t] = [pc |-> pc, id |-> id, cur |-> cur, reason |-> reason]]

PmReturn(t) == pm_calls' = [pm_calls EXCEPT ![t] = PmIdle]

\* add_pool by thread t: one critical section of the pools mutex
ConcAddPool(t, cfg) ==
    /\ ConcBegin(t)
    /\ PoolsLockFree
    /\ AddPool(cfg)
    /\ UNCHANGED pm_calls

\* remove_pool: the removal from the registry, under the pools mutex
RemoveTake(t, id) ==
    /\ ConcBegin(t)
    /\ PoolsLockFree
    /\ IF id \notin DOMAIN pools
       THEN /\ pm_ret' = Err("PoolConnection")
            /\ UNCHANGED <<pools, pm_calls>>
       ELSE /\ pools' = MapRemove(pools, id)
            /\ PmAt(t, "remove_clear", id, None, "")
            /\ UNCHANGED pm_ret
    /\ UNCHANGED <<active_pool, failover_history>>

\* remove_pool: the active pool is cleared if it is the removed one; both guards drop
RemoveClear(t) ==
    /\ pm_calls[t].pc = "remove_clear"
    /\ active_pool' = IF active_pool = pm_calls[t].id THEN None ELSE active_pool
    /\ pm_ret' = Ok
    /\ PmReturn(t)
    /\ UNCHANGED <<pools, failover_history, pm_ops>>

\* set_active_pool: the inner block that verifies the pool exists
SetActiveCheck(t, id) ==
    /\ ConcBegin(t)
    /\ PoolsLockFree
    /\ IF id \notin DOMAIN pools
       THEN /\ pm_ret' = Err("PoolConnection")
            /\ UNCHANGED pm_calls
       ELSE /\ PmAt(t, "set_store", id, None, "")
            /\ UNCHANGED pm_ret
    /\ UNCHANGED <<pools, active_pool, failover_history>>

\* set_active_pool: the store under the active_pool mutex
SetActiveStore(t) ==
    /\ pm_calls[t].pc = "set_store"
    /\ active_pool' = pm_calls[t].id
    /\ pm_ret' = Ok
    /\ PmReturn(t)
    /\ UNCHANGED <<pools, failover_history, pm_ops>>

\* failover: active_pool_id()
FailoverRead(t, reason) ==
    /\ ConcBegin(t)
    /\ PmAt(t, IF active_pool = None THEN "fo_select" ELSE "fo_mark", "", active_pool, reason)
    /\ UNCHANGED <<pools, active_pool, failover_history, pm_ret>>

\* failover: update_status(current, Failed)
FailoverMark(t) ==
    /\ pm_calls[t].pc = "fo_mark"
    /\ PoolsLockFree
    /\ LET c == pm_calls[t]
       IN IF c.cur \notin DOMAIN pools
          THEN /\ pm_ret' = Err("PoolConnection")
               /\ PmReturn(t)
               /\ UNCHANGED pools
          ELSE /\ pools' = [pools EXCEPT ![c.cur].status = FailedStatus(c.reason)]
               /\ PmAt(t, "fo_select", "", c.cur, c.reason)
               /\ UNCHANGED pm_ret
    /\ UNCHANGED <<active_pool, failover_history, pm_ops>>

\* failover: select_best_pool()
FailoverSelect(t) ==
    /\ pm_calls[t].pc = "fo_select"
    /\ PoolsLockFree
    /\ \E order \in IterationOrders(DOMAIN pools) :
         LET new_pool == select_best_pool(pools, order)
             c == pm_calls[t]
         IN IF new_pool.tag = "Some"
            THEN /\ PmAt(t, "fo_check", new_pool.val, c.cur, c.reason)
                 /\ UNCHANGED pm_ret
            ELSE /\ pm_ret' = RetNone
                 /\ PmReturn(t)
    /\ UNCHANGED <<pools, active_pool, failover_history, pm_ops>>

\* failover: set_active_pool(new_pool), the check that the pool exists
FailoverCheck(t) ==
    /\ pm_calls[t].pc = "fo_check"
    /\ PoolsLockFree
    /\ LET c == pm_calls[t]
       IN IF c.id \notin DOMAIN pools
          THEN /\ pm_ret' = Err("PoolConnection")
               /\ PmReturn(t)
          ELSE /\ PmAt(t, "fo_store", c.id, c.cur, c.reason)
               /\ UNCHANGED pm_ret
    /\ UNCHANGED <<pools, active_pool, failover_history, pm_ops>>

\* failover: set_active_pool(new_pool), the store
FailoverStore(t) ==
    /\ pm_calls[t].pc = "fo_store"
    /\ active_pool' = pm_calls[t].id
    /\ LET c == pm_calls[t] IN PmAt(t, "fo_log", c.id, c.cur, c.reason)
    /\ UNCHANGED <<pools, failover_history, pm_ret, pm_ops>>

\* failover: the event is pushed to the history and the new pool returned
FailoverLog(t) ==
    /\ pm_calls[t].pc = "fo_log"
    /\ LET c == pm_calls[t]
       IN /\ failover_history' = Append(failover_history, FailoverEvent(c.cur, c.id, c.reason))
          /\ pm_ret' = Some(c.id)
    /\ PmReturn(t)
    /\ UNCHANGED <<pools, active_pool, pm_ops>>

PoolConcNext ==
    \/ \E t \in PoolThreads, cfg \in PoolConfigs : ConcAddPool(t, cfg) /\ UNCHANGED <<coordVars, monVars, rdVars, lockVars, plugVars>>
    \/ \E t \in PoolThreads, id \in PoolIds : RemoveTake(t, id) /\ UNCHANGED <<coordVars, monVars, rdVars, lockVars, plugVars>>
    \/ \E t \in PoolThreads : RemoveClear(t) /\ UNCHANGED <<coordVars, monVars, rdVars, lockVars, plugVars>>
    \/ \E t \in PoolThreads, id \in PoolIds : SetActiveCheck(t, id) /\ UNCHANGED <<coordVars, monVars, rdVars, lockVars, plugVars>>
    \/ \E t \in PoolThreads : SetActiveStore(t) /\ UNCHANGED <<coordVars, monVars, rdVars, lockVars, plugVars>>
    \/ \E t \in PoolThreads, reason \in Reasons : FailoverRead(t, reason) /\ UNCHANGED <<coordVars, monVars, rdVars, lockVars, plugVars>>
    \/ \E t \in PoolThreads : FailoverMark(t) /\ UNCHANGED <<coordVars, monVars, rdVars, lockVars, plugVars>>
    \/ \E t \in PoolThreads : FailoverSelect(t) /\ UNCHANGED <<coordVars, monVars, rdVars, lockVars, plugVars>>
    \/ \E t \in PoolThreads : FailoverCheck(t) /\ UNCHANGED <<coordVars, monVars, rdVars, lockVars, plugVars>>
    \/ \E t \in PoolThreads : FailoverStore(t) /\ UNCHANGED <<coordVars, monVars, rdVars, lockVars, plugVars>>
    \/ \E t \in PoolThreads : FailoverLog(t) /\ UNCHANGED <<coordVars, monVars, rdVars, lockVars, plugVars>>



\* ------------------------------------------------------------------------
\* Hash-rate monitor
\* ------------------------------------------------------------------------
\* HashRateMonitorConfig.sample_interval, in seconds
SampleInterval == 1
\* HashRateMonitorConfig.alert_threshold, in percent
AlertThresholdPct == 20
\* the initial min_hash_rate, f64::MAX: above every hash rate
F64Max == -1

\* Option<T> of the monitor: no value, or the value x
NoneOpt == << >>
SomeOpt(x) == <<x>>

\* the cumulative hash counts passed to record
HashCounts == {0, 5, 6}

RECURSIVE Gcd(_, _)
Gcd(a, b) == IF b = 0 THEN a ELSE Gcd(b, a % b)

RECURSIVE LcmUpTo(_)
LcmUpTo(n) == IF n <= 1 THEN 1 ELSE (LcmUpTo(n - 1) * n) \div Gcd(LcmUpTo(n - 1), n)

\* hash rates are held in units of 1/RateScale H/s, so that hashes/duration
\* is exact for every duration the clock allows
RateScale == LcmUpTo(MaxTime)

\* HashRateSample::hash_rate
hash_rate(sample) ==
    IF sample.duration = 0 THEN 0
    ELSE (sample.hashes * RateScale) \div sample.duration

\* u64::saturating_sub
saturating_sub(a, b) == IF a >= b THEN a - b ELSE 0

RECURSIVE TrimBack(_)
TrimBack(q) == IF Len(q) > MaxSamples THEN TrimBack(SubSeq(q, 1, Len(q) - 1)) ELSE q

RECURSIVE TrimFront(_)
\* add_sample: while samples.len() > max_samples { samples.pop_front() }
TrimFront(q) == IF Len(q) > MaxSamples THEN TrimFront(Tail(q)) ELSE q

\* add_sample
add_sample(q, sample) == TrimFront(Append(q, sample))

\* update_extremes: the new peak
NewPeak(peak, rate) == IF rate > peak THEN rate ELSE peak

\* update_extremes: the new minimum
NewMin(min, rate) ==
    IF rate > 0 /\ (min = F64Max \/ rate < min) THEN rate ELSE min

RECURSIVE SumRates(_)
\* statistics: hash_rates.iter().sum()
SumRates(q) == IF q = << >> THEN 0 ELSE hash_rate(Head(q)) + SumRates(Tail(q))

RECURSIVE SumHashes(_)
\* statistics: samples.iter().map(|s| s.hashes).sum()
SumHashes(q) == IF q = << >> THEN 0 ELSE Head(q).hashes + SumHashes(Tail(q))

\* statistics, over the given deque and extremes; the average is the
\* fraction rate_sum / sample_count
statistics(q, peak, min) ==
    IF q = << >>
    THEN [current |-> 0, rate_sum |-> 0, peak |-> 0, minimum |-> 0,
          total_hashes |-> 0, monitoring_duration |-> 0, sample_count |-> 0]
    ELSE [current |-> hash_rate(q[Len(q)]),
          rate_sum |-> SumRates(q),
          peak |-> peak,
          minimum |-> IF min = F64Max THEN 0 ELSE min,
          total_hashes |-> SumHashes(q),
          monitoring_duration |-> saturating_sub(q[Len(q)].timestamp, q[1].timestamp),
          sample_count |-> Len(q)]

\* a check that also reports a rate of zero as a drop
check_alerts_zero(al, q, peak, min, sample, t) ==
    LET st == statistics(q, peak, min)
        current == hash_rate(sample)
        threshold == [num |-> st.rate_sum * (100 - AlertThresholdPct),
                      den |-> st.sample_count * 100]
    IN IF /\ st.sample_count >= MinSamplesForStats
          /\ current * threshold.den < threshold.num
       THEN Append(al, [timestamp |-> t, alert_type |-> "HashRateDrop",
                        value |-> current, threshold |-> threshold])
       ELSE al

\* check_alerts: the alerts after the check for the just-recorded sample
check_alerts(al, q, peak, min, sample, t) ==
    LET st == statistics(q, peak, min)
        current == hash_rate(sample)
        \* threshold = average * (1 - alert_threshold), as a fraction
        threshold == [num |-> st.rate_sum * (100 - AlertThresholdPct),
                      den |-> st.sample_count * 100]
    IN IF /\ st.sample_count >= MinSamplesForStats
          /\ current * threshold.den < threshold.num
          /\ current > 0
       THEN Append(al, [timestamp |-> t, alert_type |-> "HashRateDrop",
                        value |-> current, threshold |-> threshold])
       ELSE al

\* the threads that call record concurrently
MonThreads == {"t1", "t2"}

\* a thread that is in no record call
MonCallIdle ==
    [pc |-> "idle", count |-> 0, at |-> 0,
     sample |-> [timestamp |-> 0, hashes |-> 0, duration |-> 0]]

MonIdle ==
    /\ mon_calls = [t \in MonThreads |-> MonCallIdle]
    /\ now = 0
    /\ samples = << >>
    /\ last_sample_time = NoneOpt
    /\ last_hash_count = 0
    /\ mon_total_hashes = 0
    /\ start_time = NoneOpt
    /\ peak_hash_rate = 0
    /\ min_hash_rate = F64Max
    /\ alerts = << >>
    /\ mon_ret = NoneOpt
    /\ samples_added = << >>

MonInit == MonIdle

\* time passes
Tick ==
    /\ now < MaxTime
    /\ now' = now + 1
    /\ UNCHANGED <<samples, last_sample_time, last_hash_count, mon_total_hashes,
                   start_time, peak_hash_rate, min_hash_rate, alerts, mon_ret,
                   samples_added, mon_calls>>

\* start
MonStart ==
    /\ start_time' = SomeOpt(now)
    /\ last_sample_time' = SomeOpt(now)
    /\ UNCHANGED <<now, samples, last_hash_count, mon_total_hashes, peak_hash_rate,
                   min_hash_rate, alerts, mon_ret, samples_added, mon_calls>>

should_sample_always(last, t) == TRUE

\* record: whether a sample is due at instant t, the last one taken at `last`
should_sample(last, t) ==
    IF last = NoneOpt THEN TRUE ELSE t - last[1] >= SampleInterval

\* record
Record(current_hash_count) ==
    LET hashes_delta == saturating_sub(current_hash_count, last_hash_count)
        time_delta == IF last_sample_time = NoneOpt THEN 1 ELSE now - last_sample_time[1]
        sample == [timestamp |-> now, hashes |-> hashes_delta, duration |-> time_delta]
    IN /\ mon_total_hashes' = current_hash_count
       /\ IF ~should_sample(last_sample_time, now)
          THEN /\ mon_ret' = NoneOpt
               /\ UNCHANGED <<samples, last_sample_time, last_hash_count,
                              peak_hash_rate, min_hash_rate, alerts, samples_added>>
          ELSE /\ last_sample_time' = SomeOpt(now)
               /\ last_hash_count' = current_hash_count
               /\ samples' = add_sample(samples, sample)
               /\ samples_added' = Append(samples_added, sample)
               /\ peak_hash_rate' = NewPeak(peak_hash_rate, hash_rate(sample))
               /\ min_hash_rate' = NewMin(min_hash_rate, hash_rate(sample))
               /\ alerts' = check_alerts(alerts, samples', peak_hash_rate',
                                         min_hash_rate', sample, now)
               /\ mon_ret' = SomeOpt(sample)
       /\ UNCHANGED <<now, start_time, mon_calls>>

\* clear_alerts
ClearAlerts ==
    /\ alerts' = << >>
    /\ UNCHANGED <<now, samples, last_sample_time, last_hash_count, mon_total_hashes,
                   start_time, peak_hash_rate, min_hash_rate, mon_ret, samples_added, mon_calls>>

\* a reset that also forgets the count of the last sample
ResetAll ==
    /\ samples' = << >>
    /\ samples_added' = << >>
    /\ mon_total_hashes' = 0
    /\ peak_hash_rate' = 0
    /\ min_hash_rate' = F64Max
    /\ alerts' = << >>
    /\ last_hash_count' = 0
    /\ UNCHANGED <<now, last_sample_time, start_time, mon_ret, mon_calls>>

\* reset
Reset ==
    /\ samples' = << >>
    /\ samples_added' = << >>
    /\ mon_total_hashes' = 0
    /\ peak_hash_rate' = 0
    /\ min_hash_rate' = F64Max
    /\ alerts' = << >>
    /\ UNCHANGED <<now, last_sample_time, last_hash_count, start_time, mon_ret,
                   mon_calls>>

MonNext ==
    \/ Tick /\ UNCHANGED <<coordVars, poolVars, rdVars, lockVars, plugVars>>
    \/ MonStart /\ UNCHANGED <<coordVars, poolVars, rdVars, lockVars, plugVars>>
    \/ \E c \in HashCounts : Record(c) /\ UNCHANGED <<coordVars, poolVars, rdVars, lockVars, plugVars>>
    \/ ClearAlerts /\ UNCHANGED <<coordVars, poolVars, rdVars, lockVars, plugVars>>
    \/ Reset /\ UNCHANGED <<coordVars, poolVars, rdVars, lockVars, plugVars>>

\* ---- record calls of concurrent threads, one step per lock scope ----
\* the number of concurrent record calls that are begun
MonConcMaxOps == 3

\* record: `let now = Instant::now()`, read before any lock is taken
RecordNow(t, current_hash_count) ==
    /\ mon_calls[t].pc = "idle"
    /\ Len(samples_added) + Cardinality({ u \in MonThreads : mon_calls[u].pc # "idle" })
           < MonConcMaxOps
    /\ mon_calls' = [mon_calls EXCEPT ![t] =
           [MonCallIdle EXCEPT !.pc = "sample", !.count = current_hash_count, !.at = now]]
    /\ UNCHANGED <<now, samples, last_sample_time, last_hash_count, mon_total_hashes,
                   start_time, peak_hash_rate, min_hash_rate, alerts, mon_ret,
                   samples_added>>

\* record: the scope of the last_sample_time and last_hash_count guards
RecordSample(t) ==
    LET c == mon_calls[t]
        hashes_delta == saturating_sub(c.count, last_hash_count)
        time_delta == IF last_sample_time = NoneOpt THEN 1
                      ELSE saturating_sub(c.at, last_sample_time[1])
        sample == [timestamp |-> c.at, hashes |-> hashes_delta, duration |-> time_delta]
    IN /\ c.pc = "sample"
       /\ mon_total_hashes' = c.count
       /\ IF ~should_sample(last_sample_time, c.at)
          THEN /\ mon_ret' = NoneOpt
               /\ mon_calls' = [mon_calls EXCEPT ![t] = MonCallIdle]
               /\ UNCHANGED <<last_sample_time, last_hash_count>>
          ELSE /\ last_sample_time' = SomeOpt(c.at)
               /\ last_hash_count' = c.count
               /\ mon_calls' = [mon_calls EXCEPT ![t].pc = "add", ![t].sample = sample]
               /\ UNCHANGED mon_ret
       /\ UNCHANGED <<now, samples, start_time, peak_hash_rate, min_hash_rate, alerts,
                      samples_added>>

\* record: add_sample, after the guards were dropped
RecordAdd(t) ==
    /\ mon_calls[t].pc = "add"
    /\ samples' = add_sample(samples, mon_calls[t].sample)
    /\ samples_added' = Append(samples_added, mon_calls[t].sample)
    /\ mon_calls' = [mon_calls EXCEPT ![t].pc = "extremes"]
    /\ UNCHANGED <<now, last_sample_time, last_hash_count, mon_total_hashes, start_time,
                   peak_hash_rate, min_hash_rate, alerts, mon_ret>>

\* record: update_extremes
RecordExtremes(t) ==
    /\ mon_calls[t].pc = "extremes"
    /\ peak_hash_rate' = NewPeak(peak_hash_rate, hash_rate(mon_calls[t].sample))
    /\ min_hash_rate' = NewMin(min_hash_rate, hash_rate(mon_calls[t].sample))
    /\ mon_calls' = [mon_calls EXCEPT ![t].pc = "alerts"]
    /\ UNCHANGED <<now, samples, last_sample_time, last_hash_count, mon_total_hashes,
                   start_time, alerts, mon_ret, samples_added>>

\* record: check_alerts, and the sample is returned
RecordAlerts(t) ==
    /\ mon_calls[t].pc = "alerts"
    /\ alerts' = check_alerts(alerts, samples, peak_hash_rate, min_hash_rate,
                              mon_calls[t].sample, now)
    /\ mon_ret' = SomeOpt(mon_calls[t].sample)
    /\ mon_calls' = [mon_calls EXCEPT ![t] = MonCallIdle]
    /\ UNCHANGED <<now, samples, last_sample_time, last_hash_count, mon_total_hashes,
                   start_time, peak_hash_rate, min_hash_rate, samples_added>>

MonConcNext ==
    \/ Tick /\ UNCHANGED <<coordVars, poolVars, rdVars, lockVars, plugVars>>
    \/ \E t \in MonThreads, c \in HashCounts : RecordNow(t, c) /\ UNCHANGED <<coordVars, poolVars, rdVars, lockVars, plugVars>>
    \/ \E t \in MonThreads : RecordSample(t) /\ UNCHANGED <<coordVars, poolVars, rdVars, lockVars, plugVars>>
    \/ \E t \in MonThreads : RecordAdd(t) /\ UNCHANGED <<coordVars, poolVars, rdVars, lockVars, plugVars>>
    \/ \E t \in MonThreads : RecordExtremes(t) /\ UNCHANGED <<coordVars, poolVars, rdVars, lockVars, plugVars>>
    \/ \E t \in MonThreads : RecordAlerts(t) /\ UNCHANGED <<coordVars, poolVars, rdVars, lockVars, plugVars>>

\* ------------------------------------------------------------------------
\* Reward distributor
\* ------------------------------------------------------------------------
\* no call of the operation has returned yet
NoCall == [tag |-> "NoCall", val |-> ""]

\* RewardMethod
Methods == {"Pps", "Pplns", "Prop", "Score", "Solo"}

\* the threads that call the distributor
RdThreads == {"t1", "t2"}

\* the instants of the distributor's clock, in seconds
RdInstants == {0, 1}

\* the last instant
RdLastInstant == CHOOSE t \in RdInstants : \A u \in RdInstants : u <= t

\* RewardConfig of the modelled distributor: the default with the amounts
\* scaled down (min_payout_sats from 10_000, pplns_window from 100_000,
\* maturity_confirmations from 100), for a given method and pool fee
RewardConfig(method, pool_fee_percent) ==
    [method |-> method, pool_fee_percent |-> pool_fee_percent,
     min_payout_sats |-> 2, pplns_window |-> 2, maturity_confirmations |-> 2]

\* the configurations of the distributor
RdConfigs ==
    { RewardConfig("Pplns", 50), RewardConfig("Prop", 0), RewardConfig("Score", 50),
      RewardConfig("Solo", 50), RewardConfig("Solo", 100), RewardConfig("Pps", 0) }

\* worker ids passed by callers
WorkerIds == {"w1", "w2"}

\* the (worker, difficulty, accepted) arguments of record_share
ShareInputs ==
    { [worker_id |-> "w1", difficulty |-> 15, accepted |-> TRUE],
      [worker_id |-> "w2", difficulty |-> 7, accepted |-> TRUE],
      [worker_id |-> "w1", difficulty |-> 7, accepted |-> FALSE] }

\* block heights passed by callers
Heights == {0, 1}

\* the heights passed to set_block_height
HeightInputs == {1}

\* the BlockReward values passed to record_block: the caller fills every field
BlockInputs ==
    { [height |-> 0, reward_sats |-> 40, fees_sats |-> 4, is_mature |-> FALSE, confirmations |-> 0],
      [height |-> 1, reward_sats |-> 4, fees_sats |-> 1, is_mature |-> TRUE, confirmations |-> 0] }

\* the confirmation counts passed to update_confirmations
ConfirmationInputs == {1, 2}

\* WorkerStats::new, with active_since set or not
WorkerStatsNew(worker_id) ==
    [worker_id |-> worker_id, shares_submitted |-> 0, shares_accepted |-> 0,
     shares_rejected |-> 0, total_difficulty |-> 0, pending_reward_sats |-> 0,
     paid_reward_sats |-> 0]

\* RewardDistributor::new
RdIdle ==
    /\ rd_config = RewardConfig("Pplns", 0)
    /\ rd_workers = << >>
    /\ shares = << >>
    /\ blocks = << >>
    /\ payouts = << >>
    /\ share_counter = 0
    /\ payout_counter = 0
    /\ current_height = 0
    /\ rd_now = 0
    /\ rs_calls = {}
    /\ cp_calls = {}
    /\ share_ret = NoCall
    /\ calc_ret = NoCall
    /\ stats_ret = NoCall
    /\ confirm_ret = NoCall
    /\ payout_ret = NoCall
    /\ complete_ret = NoCall
    /\ rd_ops = 0
    /\ credited = [w \in WorkerIds |-> 0]

\* RewardDistributor::new, for each configuration
RdInit ==
    /\ rd_config \in RdConfigs
    /\ rd_workers = << >>
    /\ shares = << >>
    /\ blocks = << >>
    /\ payouts = << >>
    /\ share_counter = 0
    /\ payout_counter = 0
    /\ current_height = 0
    /\ rd_now = 0
    /\ rs_calls = {}
    /\ cp_calls = {}
    /\ share_ret = NoCall
    /\ calc_ret = NoCall
    /\ stats_ret = NoCall
    /\ confirm_ret = NoCall
    /\ payout_ret = NoCall
    /\ complete_ret = NoCall
    /\ rd_ops = 0
    /\ credited = [w \in WorkerIds |-> 0]

\* some thread is not inside a call
ThreadFree == Cardinality(rs_calls) + Cardinality(cp_calls) < Cardinality(RdThreads)

\* a call that writes to the distributor begins
RdCall ==
    /\ rd_ops < RdMaxOps
    /\ ThreadFree
    /\ rd_ops' = rd_ops + 1

\* a shorter time, where rewards are calculated
RewardBudget == rd_ops < RewardMaxOps

\* the same, with one producer of shares and blocks
RewardCall == RewardBudget /\ rs_calls = {} /\ cp_calls = {}

\* distributor calls in one behaviour where every operation is in use
LedgerMaxOps == 4

\* the same, with one caller at a time
LedgerCall == rd_ops < LedgerMaxOps /\ rs_calls = {} /\ cp_calls = {}

\* time passes
RdTick ==
    /\ rd_now + 1 \in RdInstants
    /\ rd_now' = rd_now + 1
    /\ UNCHANGED <<stats_ret, confirm_ret, rd_config, rd_workers, shares, blocks, payouts, share_counter,
                   payout_counter, current_height, rs_calls, cp_calls, share_ret, calc_ret, payout_ret, complete_ret,
                   rd_ops, credited>>

\* register_worker
RegisterWorker(worker_id) ==
    /\ RdCall
    /\ rd_workers' = IF worker_id \in DOMAIN rd_workers THEN rd_workers
                     ELSE MapInsert(rd_workers, worker_id, WorkerStatsNew(worker_id))
    /\ UNCHANGED <<share_ret, calc_ret, payout_ret, complete_ret, stats_ret, confirm_ret, rd_config, shares, blocks, payouts, share_counter, payout_counter,
                   current_height, rd_now, rs_calls, cp_calls, credited>>

\* set_block_height
SetBlockHeight(height) ==
    /\ RdCall
    /\ current_height' = height
    /\ UNCHANGED <<share_ret, calc_ret, payout_ret, complete_ret, stats_ret, confirm_ret, rd_config, rd_workers, shares, blocks, payouts, share_counter,
                   payout_counter, rd_now, rs_calls, cp_calls, credited>>

\* a counter that hands out the same id again
next_id_same(counter) == counter

\* *counter += 1; *counter, under the lock of the counter
next_id(counter) == counter + 1

\* record_share, first critical sections: the share id under the share_counter
\* lock, the current height, and the Share value
RecordShareId(in) ==
    /\ RdCall
    /\ share_counter' = next_id(share_counter)
    /\ rs_calls' = rs_calls \cup
         {[pc |-> "push",
           share |-> [id |-> share_counter', worker_id |-> in.worker_id,
                      difficulty |-> in.difficulty, timestamp |-> rd_now,
                      accepted |-> in.accepted, block_height |-> current_height]]}
    /\ UNCHANGED <<stats_ret, confirm_ret, rd_config, rd_workers, shares, blocks, payouts, payout_counter,
                   current_height, rd_now, cp_calls, share_ret, calc_ret, payout_ret, complete_ret, credited>>

\* a trim that drops the newest shares
pplns_trim_back(cfg, q) ==
    IF cfg.method = "Pplns" /\ Len(q) > cfg.pplns_window
    THEN SubSeq(q, 1, cfg.pplns_window)
    ELSE q

\* record_share: shares.drain(0..excess) when the method is PPLNS and the log
\* is longer than the window
pplns_trim(cfg, q) ==
    IF cfg.method = "Pplns" /\ Len(q) > cfg.pplns_window
    THEN SubSeq(q, Len(q) - cfg.pplns_window + 1, Len(q))
    ELSE q

\* record_share, the critical section under the shares lock: push and trim
RecordSharePush(call) ==
    /\ call \in rs_calls
    /\ call.pc = "push"
    /\ shares' = pplns_trim(rd_config, Append(shares, call.share))
    /\ rs_calls' = (rs_calls \ {call}) \cup {[call EXCEPT !.pc = "stats"]}
    /\ UNCHANGED <<stats_ret, confirm_ret, rd_config, rd_workers, blocks, payouts, share_counter,
                   payout_counter, current_height, rd_now, cp_calls, share_ret, calc_ret, payout_ret, complete_ret, rd_ops, credited>>

\* counters of a share that also credit the worker
WorkerSharesCredited(st, share) ==
    [st EXCEPT !.shares_submitted = @ + 1,
               !.pending_reward_sats = @ + share.difficulty]

\* record_share: the counters of the worker after the share
WorkerSharesRecorded(st, share) ==
    IF share.accepted
    THEN [st EXCEPT !.shares_submitted = @ + 1,
                    !.shares_accepted = @ + 1,
                    !.total_difficulty = @ + share.difficulty]
    ELSE [st EXCEPT !.shares_submitted = @ + 1,
                    !.shares_rejected = @ + 1]

\* record_share, the critical section under the workers lock, and the return
RecordShareStats(call) ==
    /\ call \in rs_calls
    /\ call.pc = "stats"
    /\ LET w == call.share.worker_id
           st == IF w \in DOMAIN rd_workers THEN rd_workers[w] ELSE WorkerStatsNew("")
       IN rd_workers' = MapInsert(rd_workers, w, WorkerSharesRecorded(st, call.share))
    /\ rs_calls' = rs_calls \ {call}
    /\ share_ret' = [tag |-> "Ok", val |-> call.share.id]
    /\ UNCHANGED <<calc_ret, payout_ret, complete_ret, stats_ret, confirm_ret, rd_config, shares, blocks, payouts, share_counter, payout_counter,
                   current_height, rd_now, cp_calls, rd_ops, credited>>

\* record_block
RecordBlock(reward) ==
    /\ RdCall
    /\ blocks' = Append(blocks, reward)
    /\ UNCHANGED <<share_ret, calc_ret, payout_ret, complete_ret, stats_ret, confirm_ret, rd_config, rd_workers, shares, payouts, share_counter,
                   payout_counter, current_height, rd_now, rs_calls, cp_calls, credited>>

\* update_confirmations: one block after the update
ConfirmationsUpdated(cfg, block, height, confirmations) ==
    IF block.height = height
    THEN [block EXCEPT !.confirmations = confirmations,
                       !.is_mature = confirmations >= cfg.maturity_confirmations]
    ELSE block

\* update_confirmations
UpdateConfirmations(height, confirmations) ==
    /\ RdCall
    /\ blocks' = [i \in 1..Len(blocks) |->
                    ConfirmationsUpdated(rd_config, blocks[i], height, confirmations)]
    /\ confirm_ret' = Ok
    /\ UNCHANGED <<share_ret, calc_ret, payout_ret, complete_ret, stats_ret, rd_config, rd_workers, shares, payouts, share_counter,
                   payout_counter, current_height, rd_now, rs_calls, cp_calls, credited>>

RECURSIVE SumOver(_, _, _)
\* workers.values().map(|w| w.field).sum()
SumOver(ws, ids, field) ==
    IF ids = {} THEN 0
    ELSE LET w == CHOOSE x \in ids : TRUE
         IN ws[w][field] + SumOver(ws, ids \ {w}, field)

\* pool_stats: the PoolStats value
PoolStatsOf(ws, bs) ==
    [total_workers |-> Cardinality(DOMAIN ws),
     total_shares |-> SumOver(ws, DOMAIN ws, "shares_accepted"),
     total_difficulty |-> SumOver(ws, DOMAIN ws, "total_difficulty"),
     blocks_found |-> Len(bs),
     mature_blocks |-> Cardinality({i \in 1..Len(bs) : bs[i].is_mature}),
     total_pending_sats |-> SumOver(ws, DOMAIN ws, "pending_reward_sats"),
     total_paid_sats |-> SumOver(ws, DOMAIN ws, "paid_reward_sats")]

\* pool_stats
PoolStats ==
    /\ ThreadFree
    /\ stats_ret' = [tag |-> "Ok", val |-> PoolStatsOf(rd_workers, blocks)]
    /\ UNCHANGED <<share_ret, calc_ret, payout_ret, complete_ret, confirm_ret, rd_config, rd_workers,
                   shares, blocks, payouts, share_counter, payout_counter, current_height,
                   rd_now, rs_calls, cp_calls, rd_ops, credited>>

\* RewardConfig.score_decay of the modelled distributor, as a fraction
ScoreDecay == [num |-> 1, den |-> 2]

RECURSIVE SelectSeqBy(_, _, _)
\* iter().filter(..): the shares of q that are accepted and satisfy the height
\* test `mode` against h, in log order
SelectSeqBy(q, mode, h) ==
    IF q = << >> THEN << >>
    ELSE LET x == Head(q)
             keep == /\ x.accepted
                     /\ CASE mode = "upto" -> x.block_height <= h
                          [] mode = "at" -> x.block_height = h
                          [] OTHER -> TRUE
         IN (IF keep THEN <<x>> ELSE << >>) \o SelectSeqBy(Tail(q), mode, h)

\* iter().take(n)
Take(q, n) == SubSeq(q, 1, IF Len(q) < n THEN Len(q) ELSE n)

RECURSIVE SumDifficulty(_)
SumDifficulty(q) == IF q = << >> THEN 0 ELSE Head(q).difficulty + SumDifficulty(Tail(q))

\* a cast that rounds up
FloorPartUp(distributable, part, whole) ==
    IF whole = 0 THEN 0 ELSE (distributable * part + whole - 1) \div whole

\* (distributable as f64 * (difficulty / total_difficulty)) as u64, both
\* operations rounded as f64 rounds them; the cast truncates, and a NaN
\* (0 / 0) casts to 0
FloorPart(distributable, part, whole) ==
    IF whole = 0 \/ part = 0 \/ distributable = 0 THEN 0
    ELSE TruncF64(MulF64(distributable, DivF64(part, whole)))

\* (distributable as f64 * score / total_score) as u64: the product of the
\* small whole number and the binary fraction is exact in f64 and the one
\* rounded division cannot cross a whole number, so the cast is the floor
FloorQuot(distributable, score, total_score) ==
    IF total_score = 0 THEN 0 ELSE (distributable * score) \div total_score

RECURSIVE SumFor(_, _, _, _)
\* the rewards of worker w over the shares of q, each floored on its own
SumFor(q, w, distributable, whole) ==
    IF q = << >> THEN 0
    ELSE (IF Head(q).worker_id = w
          THEN FloorPart(distributable, Head(q).difficulty, whole) ELSE 0)
         + SumFor(Tail(q), w, distributable, whole)

\* the reward map built by the loop over the relevant shares
ProportionalMap(relevant, distributable) ==
    LET whole == SumDifficulty(relevant)
    IN [w \in {relevant[i].worker_id : i \in 1..Len(relevant)} |->
          SumFor(relevant, w, distributable, whole)]

\* BlockReward::total_sats
total_sats(block) == block.reward_sats + block.fees_sats

\* a fee taken by flooring what is left for the workers
distributable_of_floor(cfg, block) ==
    (total_sats(block) * (100 - cfg.pool_fee_percent)) \div 100

\* calculate_rewards: total_reward - pool_fee, with pool_fee =
\* (total_reward as f64 * pool_fee_percent / 100.0) as u64; for a whole
\* number of percent the product is exact in f64 and the one rounded division
\* cannot cross a whole number, so the cast is the floor
distributable_of(cfg, block) ==
    total_sats(block) - ((total_sats(block) * cfg.pool_fee_percent) \div 100)

\* the f64 values 0.0 and 1.0
F64Zero == [l3 |-> 0, l2 |-> 0, l1 |-> 0, l0 |-> 0, e |-> 0]
F64One == [l3 |-> 128, l2 |-> 0, l1 |-> 0, l0 |-> 0, e |-> 0 - 52]

\* an acceptance rate without the case of no shares
worker_acceptance_rate_div(st) ==
    IF st.shares_accepted = 0 THEN F64Zero
    ELSE DivF64(st.shares_accepted, st.shares_submitted)

\* WorkerStats::acceptance_rate: 1.0 when nothing was submitted, otherwise
\* shares_accepted as f64 / shares_submitted as f64
worker_acceptance_rate(st) ==
    IF st.shares_submitted = 0 THEN F64One
    ELSE IF st.shares_accepted = 0 THEN F64Zero
    ELSE DivF64(st.shares_accepted, st.shares_submitted)

\* a PPS branch that pays the first worker
calculate_pps_paid(distributable) == [w \in {"w1"} |-> distributable]

\* calculate_pps
calculate_pps(distributable) == << >>

\* calculate_pplns
calculate_pplns(cfg, q, distributable, block_height) ==
    LET relevant == Take(SelectSeqBy(q, "upto", block_height), cfg.pplns_window)
    IN IF relevant = << >> THEN << >> ELSE ProportionalMap(relevant, distributable)

\* calculate_proportional
calculate_proportional(q, distributable, block_height) ==
    LET relevant == SelectSeqBy(q, "at", block_height)
    IN IF relevant = << >> THEN << >> ELSE ProportionalMap(relevant, distributable)

\* calculate_score: difficulty * score_decay^age, in units of
\* 1 / ScoreDecay.den^RdLastInstant
ScoreOf(share, t) ==
    share.difficulty * Pow(ScoreDecay.num, t - share.timestamp)
                     * Pow(ScoreDecay.den, RdLastInstant - (t - share.timestamp))

RECURSIVE ScoreFor(_, _, _)
ScoreFor(q, w, t) ==
    IF q = << >> THEN 0
    ELSE (IF Head(q).worker_id = w THEN ScoreOf(Head(q), t) ELSE 0)
         + ScoreFor(Tail(q), w, t)

RECURSIVE MapSum(_)
\* values().sum()
MapSum(f) ==
    IF DOMAIN f = {} THEN 0
    ELSE LET k == CHOOSE k \in DOMAIN f : TRUE
         IN f[k] + MapSum(MapRemove(f, k))

\* calculate_score
calculate_score(q, distributable, t) ==
    LET accepted == SelectSeqBy(q, "all", 0)
        scores == [w \in {accepted[i].worker_id : i \in 1..Len(accepted)} |->
                     ScoreFor(accepted, w, t)]
        total_score == MapSum(scores)
    IN IF total_score = 0 THEN << >>
       ELSE [w \in DOMAIN scores |-> FloorQuot(distributable, scores[w], total_score)]

\* calculate_solo
calculate_solo(q, distributable) ==
    LET accepted == SelectSeqBy(q, "all", 0)
    IN IF accepted = << >> THEN << >>
       ELSE [w \in {accepted[Len(accepted)].worker_id} |-> distributable]

\* blocks.iter().find(|b| b.height == block_height): its index, or 0
FindBlock(bs, block_height) ==
    IF \E i \in 1..Len(bs) : bs[i].height = block_height
    THEN CHOOSE i \in 1..Len(bs) :
            /\ bs[i].height = block_height
            /\ \A j \in 1..(i - 1) : bs[j].height # block_height
    ELSE 0

\* calculate_rewards, for a block that was found
calculate_rewards(cfg, q, block, t) ==
    LET distributable == distributable_of(cfg, block)
    IN CASE cfg.method = "Pps" -> calculate_pps(distributable)
         [] cfg.method = "Pplns" -> calculate_pplns(cfg, q, distributable, block.height)
         [] cfg.method = "Prop" -> calculate_proportional(q, distributable, block.height)
         [] cfg.method = "Score" -> calculate_score(q, distributable, t)
         [] OTHER -> calculate_solo(q, distributable)

\* calculate_rewards
CalculateRewards(block_height) ==
    /\ ThreadFree
    /\ calc_ret' = IF FindBlock(blocks, block_height) = 0
                 THEN Err("Configuration")
                 ELSE [tag |-> "Ok",
                       val |-> calculate_rewards(rd_config, shares,
                                   blocks[FindBlock(blocks, block_height)], rd_now)]
    /\ UNCHANGED <<share_ret, payout_ret, complete_ret, stats_ret, confirm_ret, rd_config, rd_workers, shares, blocks, payouts, share_counter,
                   payout_counter, current_height, rd_now, rs_calls, cp_calls, rd_ops, credited>>

\* a reward map made by the caller
DirectRewards == [w \in WorkerIds |-> IF w = "w1" THEN 3 ELSE 1]

\* the reward map calculate_rewards returned to the caller last, if any
CalculatedRewards == IF calc_ret.tag = "Ok" THEN {calc_ret.val} ELSE {}

\* distribute_rewards: the sats added to the balance of worker w
Credit(ws, rewards, w) ==
    IF w \in DOMAIN rewards /\ w \in DOMAIN ws THEN rewards[w] ELSE 0

\* distribute_rewards
DistributeRewards(rewards) ==
    /\ RdCall
    /\ rd_workers' = [w \in DOMAIN rd_workers |->
                        [rd_workers[w] EXCEPT
                           !.pending_reward_sats = @ + Credit(rd_workers, rewards, w)]]
    /\ credited' = [w \in WorkerIds |-> credited[w] + Credit(rd_workers, rewards, w)]
    /\ UNCHANGED <<share_ret, calc_ret, payout_ret, complete_ret, stats_ret, confirm_ret, rd_config, shares, blocks, payouts, share_counter, payout_counter,
                   current_height, rd_now, rs_calls, cp_calls>>

BelowThresholdOnlyZero(cfg, st) == st.pending_reward_sats = 0

\* create_payout: the minimum threshold check
BelowThreshold(cfg, st) == st.pending_reward_sats < cfg.min_payout_sats

PayoutDebitedKept(st) == st

\* create_payout: the worker after its pending balance was taken
PayoutDebited(st) == [st EXCEPT !.pending_reward_sats = 0]

NewPayoutProcessing(payout_id, worker_id, amount, address, t) ==
    [id |-> payout_id, worker_id |-> worker_id, amount_sats |-> amount,
     address |-> address, txid |-> NoneOpt, status |-> "Processing",
     created_at |-> t, completed_at |-> NoneOpt]

\* create_payout: the Payout value
NewPayout(payout_id, worker_id, amount, address, t) ==
    [id |-> payout_id, worker_id |-> worker_id, amount_sats |-> amount,
     address |-> address, txid |-> NoneOpt, status |-> "Pending",
     created_at |-> t, completed_at |-> NoneOpt]

\* create_payout, the critical section under the workers lock: the lookup, the
\* threshold check, the payout id, the snapshot and the zeroing
CreatePayoutDebit(worker_id, address) ==
    /\ RdCall
    /\ IF worker_id \notin DOMAIN rd_workers
       THEN /\ payout_ret' = Err("Configuration")
            /\ UNCHANGED <<rd_workers, payout_counter, cp_calls>>
       ELSE IF BelowThreshold(rd_config, rd_workers[worker_id])
       THEN /\ payout_ret' = RetNone
            /\ UNCHANGED <<rd_workers, payout_counter, cp_calls>>
       ELSE /\ payout_counter' = next_id(payout_counter)
            /\ rd_workers' = [rd_workers EXCEPT ![worker_id] = PayoutDebited(@)]
            /\ cp_calls' = cp_calls \cup
                 {NewPayout(payout_counter', worker_id,
                            rd_workers[worker_id].pending_reward_sats, address, rd_now)}
            /\ UNCHANGED payout_ret
    /\ UNCHANGED <<share_ret, calc_ret, complete_ret, stats_ret, confirm_ret, rd_config, shares, blocks, payouts, share_counter, current_height,
                   rd_now, rs_calls, credited>>

\* create_payout, the critical section under the payouts lock, and the return
CreatePayoutPush(payout) ==
    /\ payout \in cp_calls
    /\ payouts' = Append(payouts, payout)
    /\ cp_calls' = cp_calls \ {payout}
    /\ payout_ret' = Some(payout)
    /\ UNCHANGED <<share_ret, calc_ret, complete_ret, stats_ret, confirm_ret, rd_config, rd_workers, shares, blocks, share_counter,
                   payout_counter, current_height, rd_now, rs_calls, rd_ops, credited>>

\* payouts.iter_mut().find(|p| p.id == payout_id): its index, or 0
FindPayout(ps, payout_id) ==
    IF \E i \in 1..Len(ps) : ps[i].id = payout_id
    THEN CHOOSE i \in 1..Len(ps) :
            /\ ps[i].id = payout_id
            /\ \A j \in 1..(i - 1) : ps[j].id # payout_id
    ELSE 0

\* payout ids and transaction ids passed to complete_payout
PayoutIdInputs == {1, 2}

\* complete_payout: the payout after completion
PayoutCompleted(payout, txid, t) ==
    [payout EXCEPT !.txid = SomeOpt(txid), !.status = "Completed",
                   !.completed_at = SomeOpt(t)]

\* complete_payout
CompletePayout(payout_id, txid) ==
    /\ RdCall
    /\ LET i == FindPayout(payouts, payout_id)
       IN IF i = 0
          THEN /\ complete_ret' = Err("Configuration")
               /\ UNCHANGED <<payouts, rd_workers>>
          ELSE /\ payouts' = [payouts EXCEPT ![i] = PayoutCompleted(@, txid, rd_now)]
               /\ rd_workers' =
                    IF payouts[i].worker_id \in DOMAIN rd_workers
                    THEN [rd_workers EXCEPT ![payouts[i].worker_id].paid_reward_sats =
                                               @ + payouts[i].amount_sats]
                    ELSE rd_workers
               /\ complete_ret' = Ok
    /\ UNCHANGED <<share_ret, calc_ret, payout_ret, stats_ret, confirm_ret, rd_config, shares, blocks, share_counter, payout_counter,
                   current_height, rd_now, rs_calls, cp_calls, credited>>

\* ------------------------------------------------------------------------
\* The locks of the reward distributor
\* ------------------------------------------------------------------------
\* The data the critical sections read and write is in the specifications of
\* the distributor above; here a call is the guards it takes and drops, in
\* the order of the source, and a branch that depends on the data is open.
\* the threads that call the distributor
LockThreads == {"t1", "t2", "t3"}

\* distributor calls begun by the threads in one behaviour
LockMaxOps == 3

\* the Mutex fields of RewardDistributor
Locks == {"workers", "shares", "blocks", "payouts", "share_counter",
          "payout_counter", "current_height"}

\* lock() of a Mutex, and the drop of its guard
Acq(l) == <<"acq", l>>
Rel(l) == <<"rel", l>>

\* a thread outside every call
Returned == [op |-> "idle", todo |-> << >>]

\* record_share: four scopes, one guard each
record_share_locks ==
    << Acq("share_counter"), Rel("share_counter"),
       Acq("current_height"), Rel("current_height"),
       Acq("shares"), Rel("shares"),
       Acq("workers"), Rel("workers") >>

\* calculate_rewards: the blocks guard lives to the end of the call; the PPS
\* branch and the error return take no other guard, the other methods take
\* the shares guard inside calculate_pplns, _proportional, _score or _solo
calculate_rewards_locks(with_shares) ==
    IF with_shares
    THEN << Acq("blocks"), Acq("shares"), Rel("shares"), Rel("blocks") >>
    ELSE << Acq("blocks"), Rel("blocks") >>

\* distribute_rewards
distribute_rewards_locks == << Acq("workers"), Rel("workers") >>

\* a create_payout that keeps the workers guard until it returns
create_payout_locks_kept(paid) ==
    IF paid
    THEN << Acq("workers"), Acq("payout_counter"), Rel("payout_counter"),
            Acq("payouts"), Rel("payouts"), Rel("workers") >>
    ELSE << Acq("workers"), Rel("workers") >>

\* create_payout: the early returns drop the workers guard; otherwise the
\* payout id is taken under the workers guard, drop(workers) comes before
\* payouts.lock()
create_payout_locks(paid) ==
    IF paid
    THEN << Acq("workers"), Acq("payout_counter"), Rel("payout_counter"),
            Rel("workers"), Acq("payouts"), Rel("payouts") >>
    ELSE << Acq("workers"), Rel("workers") >>

\* complete_payout: the workers guard is taken while the payouts guard is held
complete_payout_locks(found) ==
    IF found
    THEN << Acq("payouts"), Acq("workers"), Rel("workers"), Rel("payouts") >>
    ELSE << Acq("payouts"), Rel("payouts") >>

\* pool_stats: workers, then blocks; the guards drop in reverse order
pool_stats_locks == << Acq("workers"), Acq("blocks"), Rel("blocks"), Rel("workers") >>

\* no guard is held and no thread is inside a call
LockIdle ==
    /\ lk_held = [l \in Locks |-> "free"]
    /\ lk_pc = [t \in LockThreads |-> Returned]
    /\ lk_ops = 0

\* thread t enters a call that takes and drops the guards of `todo`
LockCall(t, op, todo) ==
    /\ lk_ops < LockMaxOps
    /\ lk_pc[t] = Returned
    /\ lk_pc' = [lk_pc EXCEPT ![t] = [op |-> op, todo |-> todo]]
    /\ lk_ops' = lk_ops + 1
    /\ UNCHANGED lk_held

\* thread t inside a call: Mutex::lock blocks until the guard is free; a
\* drop frees it; after the last drop the call returns
LockStep(t) ==
    /\ lk_pc[t].todo # << >>
    /\ LET step == Head(lk_pc[t].todo)
           rest == Tail(lk_pc[t].todo)
       IN /\ IF step[1] = "acq"
             THEN /\ lk_held[step[2]] = "free"
                  /\ lk_held' = [lk_held EXCEPT ![step[2]] = t]
             ELSE lk_held' = [lk_held EXCEPT ![step[2]] = "free"]
          /\ lk_pc' = [lk_pc EXCEPT ![t] =
                         IF rest = << >> THEN Returned ELSE [@ EXCEPT !.todo = rest]]
    /\ UNCHANGED lk_ops

\* the distributor called by the threads
LockNext ==
    \/ \E t \in LockThreads : LockCall(t, "record_share", record_share_locks) /\ UNCHANGED <<coordVars, poolVars, monVars, rdVars, plugVars>>
    \/ \E t \in LockThreads, b \in BOOLEAN : LockCall(t, "calculate_rewards", calculate_rewards_locks(b)) /\ UNCHANGED <<coordVars, poolVars, monVars, rdVars, plugVars>>
    \/ \E t \in LockThreads : LockCall(t, "distribute_rewards", distribute_rewards_locks) /\ UNCHANGED <<coordVars, poolVars, monVars, rdVars, plugVars>>
    \/ \E t \in LockThreads, b \in BOOLEAN : LockCall(t, "create_payout", create_payout_locks(b)) /\ UNCHANGED <<coordVars, poolVars, monVars, rdVars, plugVars>>
    \/ \E t \in LockThreads, b \in BOOLEAN : LockCall(t, "complete_payout", complete_payout_locks(b)) /\ UNCHANGED <<coordVars, poolVars, monVars, rdVars, plugVars>>
    \/ \E t \in LockThreads : LockCall(t, "pool_stats", pool_stats_locks) /\ UNCHANGED <<coordVars, poolVars, monVars, rdVars, plugVars>>
    \/ \E t \in LockThreads : LockStep(t) /\ UNCHANGED <<coordVars, poolVars, monVars, rdVars, plugVars>>

\* ------------------------------------------------------------------------
\* Plugin
\* ------------------------------------------------------------------------
\* plugin calls made in one behaviour
PlugMaxOps == 5

\* MiningConfig::default, the fields the plugin reads
MiningConfigDefault == [max_cpu_percentage |-> 25, thread_count |-> 0, pool_url |-> NoneOpt]

\* the configurations passed to update_config
PlugConfigInputs ==
    { MiningConfigDefault,
      [max_cpu_percentage |-> 50, thread_count |-> 2, pool_url |-> SomeOpt("pool")],
      [max_cpu_percentage |-> 0, thread_count |-> 0, pool_url |-> NoneOpt],
      [max_cpu_percentage |-> 101, thread_count |-> 0, pool_url |-> SomeOpt("pool")] }

\* the hardware MiningHardwareProfile::detect finds: the physical cores the
\* machine reports, and the 8 GiB of memory detect_available_memory assumes
HardwareInputs ==
    { [physical_cores |-> 1, memory_gib |-> 8],
      [physical_cores |-> 2, memory_gib |-> 8],
      [physical_cores |-> 4, memory_gib |-> 8] }

\* is_suitable_for_mining
is_suitable_for_mining(hw) == hw.physical_cores >= 2 /\ hw.memory_gib >= 2

\* MiningPlugin::new with the default configuration
PlugIdle ==
    /\ plug_config = MiningConfigDefault
    /\ coordinator = NoneOpt
    /\ stratum_client = NoneOpt
    /\ plug_ret = NoCall
    /\ thread_ret = NoCall
    /\ released = NoneOpt
    /\ plug_ops = 0

\* a plugin call begins
PlugCall ==
    /\ plug_ops < PlugMaxOps
    /\ plug_ops' = plug_ops + 1

\* the validation of new and update_config
ConfigInvalid(cfg) == cfg.max_cpu_percentage = 0 \/ cfg.max_cpu_percentage > 100

\* update_config
UpdateConfig(cfg) ==
    /\ PlugCall
    /\ IF ConfigInvalid(cfg)
       THEN plug_ret' = Err("Configuration") /\ UNCHANGED plug_config
       ELSE plug_ret' = Ok /\ plug_config' = cfg
    /\ UNCHANGED <<coordinator, stratum_client, thread_ret, released>>

\* StratumClient::new followed by connect, which always ends Connected
StratumConnected(pool_url) == [pool_url |-> pool_url, connection_state |-> "Connected"]

\* connect_to_pool
ConnectToPool ==
    /\ PlugCall
    /\ IF plug_config.pool_url = NoneOpt
       THEN plug_ret' = Err("Configuration") /\ UNCHANGED stratum_client
       ELSE /\ plug_ret' = Ok
            /\ stratum_client' = SomeOpt(StratumConnected(plug_config.pool_url[1]))
    /\ UNCHANGED <<plug_config, coordinator, thread_ret, released>>

\* disconnect_from_pool
DisconnectFromPool ==
    /\ PlugCall
    /\ stratum_client' = NoneOpt
    /\ plug_ret' = Ok
    /\ UNCHANGED <<plug_config, coordinator, thread_ret, released>>

\* StratumClient::get_job: an error when not connected, otherwise no job
get_job(client) ==
    IF client.connection_state # "Connected" THEN Err("PoolConnection") ELSE RetNone

\* MiningCoordinator::new on hardware hw
coordinator_new(cfg, hw) ==
    IF ~is_suitable_for_mining(hw) THEN Err("HardwareDetection")
    ELSE [tag |-> "Ok",
          val |-> [config |-> cfg, physical_cores |-> hw.physical_cores,
                   running |-> FALSE, started |-> FALSE]]

\* MiningCoordinator::start on a coordinator that is not running; `started`
\* is the history of the call
coordinator_start(c) == [c EXCEPT !.running = TRUE, !.started = TRUE]

\* MiningCoordinator::stop
coordinator_stop(c) == [c EXCEPT !.running = FALSE]

\* a plugin that never takes a start for a second one
AlreadyActiveNever(c) == FALSE

\* start_background_mining: self.coordinator.is_some()
AlreadyActive(c) == c # NoneOpt

\* start_background_mining, with the hardware the new coordinator detects
StartBackgroundMining(hw) ==
    /\ PlugCall
    /\ IF AlreadyActive(coordinator)
       THEN plug_ret' = Err("Coordinator") /\ UNCHANGED coordinator
       ELSE LET made == coordinator_new(plug_config, hw)
                job == IF stratum_client = NoneOpt THEN RetNone
                       ELSE get_job(stratum_client[1])
            IN IF made.tag = "Err"
               THEN plug_ret' = made /\ UNCHANGED coordinator
               ELSE IF job.tag = "Err"
               THEN plug_ret' = job /\ UNCHANGED coordinator
               ELSE /\ coordinator' = SomeOpt(IF job.tag = "Some"
                                             THEN coordinator_start(made.val)
                                             ELSE made.val)
                    /\ plug_ret' = Ok
    /\ UNCHANGED <<plug_config, stratum_client, thread_ret, released>>

\* stop_background_mining
StopBackgroundMining ==
    /\ PlugCall
    /\ released' = IF coordinator = NoneOpt THEN released
                   ELSE SomeOpt(coordinator_stop(coordinator[1]))
    /\ coordinator' = NoneOpt
    /\ plug_ret' = Ok
    /\ UNCHANGED <<plug_config, stratum_client, thread_ret>>

\* is_mining: coordinator.map(|c| c.is_running()).unwrap_or(false)
is_mining(c) == IF c = NoneOpt THEN FALSE ELSE c[1].running

\* the is_mining call
IsMining ==
    /\ PlugCall
    /\ plug_ret' = [tag |-> "Ok", val |-> IF is_mining(coordinator) THEN "true" ELSE "false"]
    /\ UNCHANGED <<plug_config, coordinator, stratum_client, thread_ret, released>>

\* the plugin in use
PlugNext ==
    \/ \E cfg \in PlugConfigInputs : UpdateConfig(cfg) /\ UNCHANGED <<coordVars, poolVars, monVars, rdVars, lockVars>>
    \/ ConnectToPool /\ UNCHANGED <<coordVars, poolVars, monVars, rdVars, lockVars>>
    \/ DisconnectFromPool /\ UNCHANGED <<coordVars, poolVars, monVars, rdVars, lockVars>>
    \/ \E hw \in HardwareInputs : StartBackgroundMining(hw) /\ UNCHANGED <<coordVars, poolVars, monVars, rdVars, lockVars>>
    \/ StopBackgroundMining /\ UNCHANGED <<coordVars, poolVars, monVars, rdVars, lockVars>>
    \/ IsMining /\ UNCHANGED <<coordVars, poolVars, monVars, rdVars, lockVars>>

PlugSpecInit == CoordIdle /\ PoolIdle /\ MonIdle /\ RdIdle /\ LockIdle /\ PlugIdle

PlugSpec == PlugSpecInit /\ [][PlugNext]_vars

\* the configurations effective_thread_count is asked about: every valid
\* percentage, with and without an explicit thread count
ThreadConfigs ==
    { [max_cpu_percentage |-> p, thread_count |-> t, pool_url |-> NoneOpt] :
        p \in 1..100, t \in {0, 1, 3, 200} }

\* the core counts effective_thread_count is asked about
ThreadCoreInputs == (1..8) \cup {50, 100}

\* a call of plug_config.effective_thread_count(cores)
EffectiveThreadCount(cores) ==
    /\ thread_ret' = [tag |-> "Ok", cores |-> cores,
                      val |-> effective_thread_count(plug_config, cores)]
    /\ UNCHANGED <<plug_config, coordinator, stratum_client, plug_ret, released, plug_ops>>

\* the thread count in use
ThreadNext ==
    \E cores \in ThreadCoreInputs :
       EffectiveThreadCount(cores) /\ UNCHANGED <<coordVars, poolVars, monVars, rdVars, lockVars>>

ThreadSpecInit ==
    /\ CoordIdle /\ PoolIdle /\ MonIdle /\ RdIdle /\ LockIdle
    /\ plug_config \in ThreadConfigs
    /\ coordinator = NoneOpt
    /\ stratum_client = NoneOpt
    /\ plug_ret = NoCall
    /\ thread_ret = NoCall
    /\ released = NoneOpt
    /\ plug_ops = 0

ThreadSpec == ThreadSpecInit /\ [][ThreadNext]_vars

\* the share log in use
ShareNext ==
    \/ \E w \in WorkerIds : RegisterWorker(w) /\ UNCHANGED <<coordVars, poolVars, monVars, lockVars, plugVars>>
    \/ \E in \in ShareInputs : RecordShareId(in) /\ UNCHANGED <<coordVars, poolVars, monVars, lockVars, plugVars>>
    \/ \E call \in rs_calls : RecordSharePush(call) /\ UNCHANGED <<coordVars, poolVars, monVars, lockVars, plugVars>>
    \/ \E call \in rs_calls : RecordShareStats(call) /\ UNCHANGED <<coordVars, poolVars, monVars, lockVars, plugVars>>

ShareSpecInit ==
    CoordIdle /\ PoolIdle /\ MonIdle /\ RdInit /\ LockIdle /\ PlugIdle /\ rd_config.method \in {"Pplns", "Prop"}

ShareSpec == ShareSpecInit /\ [][ShareNext]_vars

\* the two id counters in use
IdNext ==
    \/ \E w \in WorkerIds : RegisterWorker(w) /\ UNCHANGED <<coordVars, poolVars, monVars, lockVars, plugVars>>
    \/ \E in \in ShareInputs : RecordShareId(in) /\ UNCHANGED <<coordVars, poolVars, monVars, lockVars, plugVars>>
    \/ \E call \in rs_calls : RecordSharePush(call) /\ UNCHANGED <<coordVars, poolVars, monVars, lockVars, plugVars>>
    \/ \E call \in rs_calls : RecordShareStats(call) /\ UNCHANGED <<coordVars, poolVars, monVars, lockVars, plugVars>>
    \/ DistributeRewards(DirectRewards) /\ UNCHANGED <<coordVars, poolVars, monVars, lockVars, plugVars>>
    \/ \E w \in WorkerIds : CreatePayoutDebit(w, "addr") /\ UNCHANGED <<coordVars, poolVars, monVars, lockVars, plugVars>>
    \/ \E p \in cp_calls : CreatePayoutPush(p) /\ UNCHANGED <<coordVars, poolVars, monVars, lockVars, plugVars>>

IdSpecInit == CoordIdle /\ PoolIdle /\ MonIdle /\ RdInit /\ LockIdle /\ PlugIdle /\ rd_config.method = "Pplns"

IdSpec == IdSpecInit /\ [][IdNext]_vars

\* the balances and the payouts in use
PayoutNext ==
    \/ \E w \in WorkerIds : RegisterWorker(w) /\ UNCHANGED <<coordVars, poolVars, monVars, lockVars, plugVars>>
    \/ DistributeRewards(DirectRewards) /\ UNCHANGED <<coordVars, poolVars, monVars, lockVars, plugVars>>
    \/ \E w \in WorkerIds : CreatePayoutDebit(w, "addr") /\ UNCHANGED <<coordVars, poolVars, monVars, lockVars, plugVars>>
    \/ \E p \in cp_calls : CreatePayoutPush(p) /\ UNCHANGED <<coordVars, poolVars, monVars, lockVars, plugVars>>
    \/ \E id \in PayoutIdInputs : CompletePayout(id, "tx0") /\ UNCHANGED <<coordVars, poolVars, monVars, lockVars, plugVars>>

PayoutSpecInit == CoordIdle /\ PoolIdle /\ MonIdle /\ RdInit /\ LockIdle /\ PlugIdle /\ rd_config.method = "Pplns"

PayoutSpec == PayoutSpecInit /\ [][PayoutNext]_vars

\* the block log in use
BlockNext ==
    \/ \E b \in BlockInputs : RecordBlock(b) /\ UNCHANGED <<coordVars, poolVars, monVars, lockVars, plugVars>>
    \/ \E h \in Heights, c \in ConfirmationInputs : UpdateConfirmations(h, c) /\ UNCHANGED <<coordVars, poolVars, monVars, lockVars, plugVars>>

BlockSpecInit == CoordIdle /\ PoolIdle /\ MonIdle /\ RdInit /\ LockIdle /\ PlugIdle /\ rd_config.method = "Pplns"

BlockSpec == BlockSpecInit /\ [][BlockNext]_vars

\* the share log, the block log and the reward calculation in use
RewardNext ==
    \/ RdTick /\ UNCHANGED <<coordVars, poolVars, monVars, lockVars, plugVars>>
    \/ \E h \in HeightInputs : RewardCall /\ SetBlockHeight(h) /\ UNCHANGED <<coordVars, poolVars, monVars, lockVars, plugVars>>
    \/ \E in \in ShareInputs : RewardCall /\ RecordShareId(in) /\ UNCHANGED <<coordVars, poolVars, monVars, lockVars, plugVars>>
    \/ \E call \in rs_calls : RecordSharePush(call) /\ UNCHANGED <<coordVars, poolVars, monVars, lockVars, plugVars>>
    \/ \E call \in rs_calls : RecordShareStats(call) /\ UNCHANGED <<coordVars, poolVars, monVars, lockVars, plugVars>>
    \/ \E b \in BlockInputs : RewardCall /\ RecordBlock(b) /\ UNCHANGED <<coordVars, poolVars, monVars, lockVars, plugVars>>
    \/ \E h \in Heights : RewardBudget /\ CalculateRewards(h) /\ UNCHANGED <<coordVars, poolVars, monVars, lockVars, plugVars>>
    \/ \E r \in CalculatedRewards : RewardBudget /\ DistributeRewards(r) /\ UNCHANGED <<coordVars, poolVars, monVars, lockVars, plugVars>>

RewardSpecInit == CoordIdle /\ PoolIdle /\ MonIdle /\ RdInit /\ LockIdle /\ PlugIdle

RewardSpec == RewardSpecInit /\ [][RewardNext]_vars

\* every operation of the distributor in use
LedgerNext ==
    \/ \E w \in WorkerIds : LedgerCall /\ RegisterWorker(w) /\ UNCHANGED <<coordVars, poolVars, monVars, lockVars, plugVars>>
    \/ \E h \in HeightInputs : LedgerCall /\ SetBlockHeight(h) /\ UNCHANGED <<coordVars, poolVars, monVars, lockVars, plugVars>>
    \/ \E in \in ShareInputs : LedgerCall /\ RecordShareId(in) /\ UNCHANGED <<coordVars, poolVars, monVars, lockVars, plugVars>>
    \/ \E call \in rs_calls : RecordSharePush(call) /\ UNCHANGED <<coordVars, poolVars, monVars, lockVars, plugVars>>
    \/ \E call \in rs_calls : RecordShareStats(call) /\ UNCHANGED <<coordVars, poolVars, monVars, lockVars, plugVars>>
    \/ \E b \in BlockInputs : LedgerCall /\ RecordBlock(b) /\ UNCHANGED <<coordVars, poolVars, monVars, lockVars, plugVars>>
    \/ \E h \in Heights, c \in ConfirmationInputs : LedgerCall /\ UpdateConfirmations(h, c) /\ UNCHANGED <<coordVars, poolVars, monVars, lockVars, plugVars>>
    \/ \E h \in Heights : CalculateRewards(h) /\ UNCHANGED <<coordVars, poolVars, monVars, lockVars, plugVars>>
    \/ \E r \in CalculatedRewards \cup {DirectRewards} : LedgerCall /\ DistributeRewards(r) /\ UNCHANGED <<coordVars, poolVars, monVars, lockVars, plugVars>>
    \/ \E w \in WorkerIds : LedgerCall /\ CreatePayoutDebit(w, "addr") /\ UNCHANGED <<coordVars, poolVars, monVars, lockVars, plugVars>>
    \/ \E p \in cp_calls : CreatePayoutPush(p) /\ UNCHANGED <<coordVars, poolVars, monVars, lockVars, plugVars>>
    \/ \E id \in PayoutIdInputs : LedgerCall /\ CompletePayout(id, "tx0") /\ UNCHANGED <<coordVars, poolVars, monVars, lockVars, plugVars>>
    \/ PoolStats /\ UNCHANGED <<coordVars, poolVars, monVars, lockVars, plugVars>>

LedgerSpecInit ==
    CoordIdle /\ PoolIdle /\ MonIdle /\ RdInit /\ LockIdle /\ PlugIdle /\ rd_config.method = "Pplns"

LedgerSpec == LedgerSpecInit /\ [][LedgerNext]_vars

\* the locks of the distributor in use
LockSpecInit == CoordIdle /\ PoolIdle /\ MonIdle /\ RdIdle /\ LockIdle /\ PlugIdle

LockSpec == LockSpecInit /\ [][LockNext]_vars

\* the same under a fair scheduler: a thread that can take a step again and
\* again does take one
LockFairSpec ==
    LockSpec /\ \A t \in LockThreads :
                   SF_vars(LockStep(t) /\ UNCHANGED <<coordVars, poolVars, monVars, rdVars, plugVars>>)

\* the monitor in use; the coordinator and the pool manager stay as constructed
MonSpecInit == CoordIdle /\ PoolIdle /\ MonInit /\ RdIdle /\ LockIdle /\ PlugIdle

MonSpec == MonSpecInit /\ [][MonNext]_vars

MonConcSpecInit == CoordIdle /\ PoolIdle /\ MonInit /\ RdIdle /\ LockIdle /\ PlugIdle

\* the monitor with record called by concurrent threads
MonConcSpec == MonConcSpecInit /\ [][MonConcNext]_vars

\* the pool manager in use
PoolSpecInit == CoordIdle /\ PoolInit /\ MonIdle /\ RdIdle /\ LockIdle /\ PlugIdle

PoolSpec == PoolSpecInit /\ [][PoolNext]_vars

HealthSpecInit == CoordIdle /\ PoolInit /\ MonIdle /\ RdIdle /\ LockIdle /\ PlugIdle

\* the pool manager with its health check
HealthSpec == HealthSpecInit /\ [][HealthNext]_vars

PoolConcSpecInit == CoordIdle /\ PoolInit /\ MonIdle /\ RdIdle /\ LockIdle /\ PlugIdle

\* the pool manager called by concurrent threads
PoolConcSpec == PoolConcSpecInit /\ [][PoolConcNext]_vars

\* the coordinator in use
CoordSpecInit == CoordInit /\ PoolIdle /\ MonIdle /\ RdIdle /\ LockIdle /\ PlugIdle

CoordSpec == CoordSpecInit /\ [][CoordNext]_vars

\* the coordinator when stop is never called
RunSpecInit == CoordInit /\ PoolIdle /\ MonIdle /\ RdIdle /\ LockIdle /\ PlugIdle

RunSpec == RunSpecInit /\ [][RunNext]_vars

\* the same when the runtime keeps scheduling the spawned workers
RunFairSpec ==
    RunSpec /\ WF_vars(WorkerStep /\ UNCHANGED <<poolVars, monVars, rdVars, lockVars, plugVars>>)

\* stats: the counters a caller reads
stats == [total_hashes |-> total_hashes, shares_found |-> shares_found]

\* the nonces of an assigned range, both ends included
RangeOf(r) == r.start_nonce .. r.end_nonce

\* ---- claims about the coordinator ----

\* C1: with no stop in between, at most one start call returns Ok and spawns
\* workers; every other start call returns the already-running error.
C1_OneStartSucceeds == starts_ok <= 1

\* C2: the nonce ranges assigned by one start are pairwise disjoint and
\* their union is the whole nonce space [0, NonceMax].
C2_NoncePartition ==
    last_spawn # {} =>
        /\ \A a, b \in last_spawn : a # b => RangeOf(a) \cap RangeOf(b) = {}
        /\ UNION { RangeOf(a) : a \in last_spawn } = 0..NonceMax
        /\ \A a \in last_spawn : RangeOf(a) # {}

C2_Witness ==
    /\ Cardinality(last_spawn) >= 2
    /\ BagCardinality(workers) >= 2

\* C3: once stop() has been called, a worker spawned before it performs at
\* most one further nonce step.
C3_AtMostOneStepAfterStop == \A w \in BagToSet(workers) : w.after <= 1

\* C4: once every worker has exited, stats().total_hashes is the exact number
\* of nonce iterations performed by all workers.
C4_ExactTotal == workers = EmptyBag => stats.total_hashes = iters

C4_Witness ==
    /\ workers = EmptyBag
    /\ iters > BatchSize
    /\ iters % BatchSize # 0
    /\ stats.total_hashes = iters

\* ---- claims about the pool manager ----

\* the registered pools that are neither Failed nor Disabled
Candidates(P) == { id \in DOMAIN P : P[id].status.kind \notin {"Failed", "Disabled"} }

\* accepted/submitted of q exceeds that of p, a pool without shares counting as 1
HigherRate(q, p) ==
    LET qn == IF q.shares_submitted = 0 THEN 1 ELSE q.shares_accepted
        qd == IF q.shares_submitted = 0 THEN 1 ELSE q.shares_submitted
        pn == IF p.shares_submitted = 0 THEN 1 ELSE p.shares_accepted
        pd == IF p.shares_submitted = 0 THEN 1 ELSE p.shares_submitted
    IN qn * pd > pn * qd

\* id is a candidate that no candidate outranks
IsBest(P, id) ==
    /\ id \in Candidates(P)
    /\ \A q \in Candidates(P) :
          /\ P[q].priority >= P[id].priority
          /\ P[q].priority = P[id].priority => ~HigherRate(P[q], P[id])

\* C5: failover from active pool a with another candidate registered marks a
\* Failed(reason), activates and returns the best remaining candidate, and
\* appends exactly one event {from a, to new, reason} to the history.
C5_FailoverSwitches ==
    [][\A reason \in Reasons :
         (/\ Failover(reason)
          /\ active_pool \in DOMAIN pools
          /\ Candidates(pools) \ {active_pool} # {})
         => /\ pools' = [pools EXCEPT ![active_pool].status =
                                         [kind |-> "Failed", reason |-> reason]]
            /\ active_pool' # active_pool
            /\ IsBest(pools', active_pool')
            /\ pm_ret' = [tag |-> "Some", val |-> active_pool']
            /\ failover_history' = failover_history \o
                   << [from_pool |-> active_pool, to_pool |-> active_pool',
                       reason |-> reason] >>]_vars

C5_Witness ==
    /\ Len(failover_history) >= 2
    /\ LET e == failover_history[Len(failover_history)]
       IN /\ e.from_pool \in DOMAIN pools
          /\ pools[e.from_pool].status = [kind |-> "Failed", reason |-> e.reason]
          /\ active_pool = e.to_pool
          /\ pm_ret = [tag |-> "Some", val |-> e.to_pool]

\* C6: failover that finds no pool that is neither Failed nor Disabled leaves
\* the active pool none, returns none and leaves the history unchanged.
C6_NoCandidateClearsActive ==
    [][\A reason \in Reasons :
         (/\ Failover(reason)
          /\ Candidates(pools) \ {active_pool} = {})
         => /\ active_pool' = None
            /\ pm_ret' = [tag |-> "None", val |-> ""]
            /\ failover_history' = failover_history]_vars

\* C7: select_best_pool returns none iff there is no candidate, otherwise a
\* candidate that no candidate outranks by priority or, at equal priority, by
\* acceptance rate; it changes no state of the manager.
C7_SelectBest ==
    [][SelectBestPool
         => /\ UNCHANGED <<pools, active_pool, failover_history>>
            /\ (pm_ret' = [tag |-> "None", val |-> ""]) <=> (Candidates(pools) = {})
            /\ Candidates(pools) # {} =>
                  /\ pm_ret'.tag = "Some"
                  /\ IsBest(pools, pm_ret'.val)]_vars

C7_Witness ==
    /\ pm_ret.tag = "Some"
    /\ active_pool # pm_ret.val
    /\ \E q \in Candidates(pools) \ {pm_ret.val} :
          /\ pools[q].priority = pools[pm_ret.val].priority
          /\ HigherRate(pools[pm_ret.val], pools[q])

\* C8: the registry never holds more than max_pools pools, and add_pool on a
\* full registry returns a Configuration error and changes nothing.
C8_MaxPools ==
    /\ [](Cardinality(DOMAIN pools) <= MaxPools)
    /\ [][\A cfg \in PoolConfigs :
            (AddPool(cfg) /\ Cardinality(DOMAIN pools) >= MaxPools)
            => /\ pm_ret' = [tag |-> "Err", val |-> "Configuration"]
               /\ UNCHANGED <<pools, active_pool, failover_history>>]_vars

C8_Witness ==
    /\ Cardinality(DOMAIN pools) = MaxPools
    /\ pm_ret = [tag |-> "Err", val |-> "Configuration"]

\* C9: every pool has accepted + rejected <= submitted, and a successful
\* record_share adds one to submitted and to exactly one of accepted and
\* rejected of that pool, leaving every other pool unchanged.
C9_ShareCounters ==
    /\ [](\A id \in DOMAIN pools :
             pools[id].shares_accepted + pools[id].shares_rejected
                 <= pools[id].shares_submitted)
    /\ [][\A id \in PoolIds, accepted \in BOOLEAN :
            (RecordShare(id, accepted) /\ id \in DOMAIN pools)
            => /\ DOMAIN pools' = DOMAIN pools
               /\ pools'[id].shares_submitted = pools[id].shares_submitted + 1
               /\ pools'[id].shares_accepted =
                     pools[id].shares_accepted + (IF accepted THEN 1 ELSE 0)
               /\ pools'[id].shares_rejected =
                     pools[id].shares_rejected + (IF accepted THEN 0 ELSE 1)
               /\ \A other \in DOMAIN pools \ {id} : pools'[other] = pools[other]
               /\ pm_ret' = [tag |-> "Ok", val |-> ""]]_vars

C9_Witness ==
    /\ Cardinality(DOMAIN pools) >= 2
    /\ \E id \in DOMAIN pools :
          /\ pools[id].shares_submitted = 2
          /\ pools[id].shares_rejected = 1
    /\ pm_ret = [tag |-> "Ok", val |-> ""]

\* ---- claims about the hash-rate monitor ----

\* the last n elements of q, or all of q when it is shorter
LastN(q, n) == SubSeq(q, Len(q) - (IF Len(q) < n THEN Len(q) ELSE n) + 1, Len(q))

\* C10: the monitor retains at most max_samples samples, and they are the
\* most recently added ones in insertion order.
C10_BoundedWindow ==
    /\ Len(samples) <= MaxSamples
    /\ samples = LastN(samples_added, MaxSamples)

C10_Witness ==
    /\ Len(samples_added) > MaxSamples
    /\ Len(samples) = MaxSamples
    /\ samples[1] # samples_added[1]

\* C11: a record call made less than sample_interval after the previous
\* sample (or after start) returns none and leaves the sample deque, the
\* extremes, the alert log, last_sample_time and last_hash_count unchanged.
C11_EarlyRecordSkipped ==
    [][\A c \in HashCounts :
          (/\ Record(c)
           /\ last_sample_time # NoneOpt
           /\ now - last_sample_time[1] < SampleInterval)
          => /\ mon_ret' = NoneOpt
             /\ UNCHANGED <<samples, peak_hash_rate, min_hash_rate, alerts,
                            last_sample_time, last_hash_count>>]_vars

\* a record call returned none after a sample had been taken: it stored the
\* new total but not the sample
C11_Witness ==
    /\ samples # << >>
    /\ mon_ret = NoneOpt
    /\ mon_total_hashes # last_hash_count
    /\ last_sample_time = SomeOpt(now)

\* the rate of a sample, in units of 1/RateScale H/s
RateOf(x) == IF x.duration = 0 THEN 0 ELSE (x.hashes * RateScale) \div x.duration

RECURSIVE TotalRate(_)
TotalRate(q) == IF q = << >> THEN 0 ELSE RateOf(q[1]) + TotalRate(Tail(q))

\* 0 < r < mean(q) * (1 - alert_threshold) with enough samples, in integers
DropCondition(q, r) ==
    /\ Len(q) >= MinSamplesForStats
    /\ r > 0
    /\ r * Len(q) * 100 < TotalRate(q) * (100 - AlertThresholdPct)

\* C12: record appends a HashRateDrop alert exactly when, after the new sample
\* has been added, sample_count >= min_samples_for_stats and the new rate r
\* satisfies 0 < r < average * (1 - alert_threshold); the alert carries r and
\* that threshold; no other operation appends an alert.
C12_AlertExactlyOnDrop ==
    [][/\ \A c \in HashCounts :
            (Record(c) /\ mon_ret' # NoneOpt)
            => LET r == RateOf(mon_ret'[1])
               IN IF DropCondition(samples', r)
                  THEN /\ Len(alerts') = Len(alerts) + 1
                       /\ SubSeq(alerts', 1, Len(alerts)) = alerts
                       /\ alerts'[Len(alerts')].alert_type = "HashRateDrop"
                       /\ alerts'[Len(alerts')].value = r
                       /\ alerts'[Len(alerts')].threshold.num * Len(samples') * 100
                            = alerts'[Len(alerts')].threshold.den
                                * TotalRate(samples') * (100 - AlertThresholdPct)
                  ELSE alerts' = alerts
       /\ alerts' # alerts
            => \/ alerts' = << >>
               \/ \E c \in HashCounts : Record(c) /\ mon_ret' # NoneOpt]_vars

\* an alert was appended for a drop below the threshold
C12_Witness ==
    /\ alerts # << >>
    /\ mon_ret # NoneOpt
    /\ alerts[Len(alerts)].value = RateOf(mon_ret[1])
    /\ DropCondition(samples, RateOf(mon_ret[1]))

\* the share ids held by record_share calls under way and by the share log
ShareIdsOut == {c.share.id : c \in rs_calls} \cup {shares[i].id : i \in 1..Len(shares)}

\* the payout ids held by create_payout calls under way and by the payout list
PayoutIdsOut == {p.id : p \in cp_calls} \cup {payouts[i].id : i \in 1..Len(payouts)}

\* C13: share ids and payout ids are unique and strictly increasing in the
\* order of their allocation, under every interleaving of the callers: an
\* allocation hands out an id larger than every id handed out before, no two
\* shares and no two payouts carry one id, every id returned was allocated,
\* and a create_payout that returns none or an error allocates no payout id.
C13_IdsUniqueIncreasing ==
    [][ /\ rs_calls' \ rs_calls # {} =>
            \E c \in rs_calls' \ rs_calls :
                /\ rs_calls' = rs_calls \cup {c} \/ c.pc # "push"
                /\ c.pc = "push" =>
                      /\ c.share.id = share_counter'
                      /\ share_counter' > share_counter
                      /\ \A i \in ShareIdsOut : i < c.share.id
        /\ cp_calls' \ cp_calls # {} =>
            \E p \in cp_calls' \ cp_calls :
                /\ cp_calls' = cp_calls \cup {p}
                /\ p.id = payout_counter'
                /\ payout_counter' > payout_counter
                /\ \A i \in PayoutIdsOut : i < p.id
        /\ share_counter' # share_counter => rs_calls' \ rs_calls # {}
        /\ payout_counter' # payout_counter => cp_calls' \ cp_calls # {}
        /\ (payout_ret' # payout_ret /\ payout_ret'.tag \in {"None", "Err"}) =>
              payout_counter' = payout_counter
        /\ \A c, e \in rs_calls' : c.share.id = e.share.id => c = e
        /\ \A c \in rs_calls' : c.pc = "push" =>
              \A i \in 1..Len(shares') : shares'[i].id # c.share.id
        /\ \A i, j \in 1..Len(shares') : shares'[i].id = shares'[j].id => i = j
        /\ \A p, q \in cp_calls' : p.id = q.id => p = q
        /\ \A p \in cp_calls' : \A i \in 1..Len(payouts') : payouts'[i].id # p.id
        /\ \A i, j \in 1..Len(payouts') : payouts'[i].id = payouts'[j].id => i = j
        /\ share_ret'.tag = "Ok" => share_ret'.val \in 1..share_counter'
        /\ payout_ret'.tag = "Some" => payout_ret'.val.id \in 1..payout_counter'
      ]_vars

\* two record_share calls and two create_payout calls were under way together,
\* a create_payout has returned none, and ids of both kinds were handed out
C13_Witness ==
    /\ share_counter >= 2
    /\ Len(shares) = 2
    /\ shares[1].id > shares[2].id
    /\ payout_counter >= 1
    /\ payout_ret.tag = "None"
    /\ payouts # << >>

\* C14: with method PPLNS the push of record_share leaves the last
\* pplns_window shares of the log with the new share appended, so the log
\* never holds more than pplns_window shares; with any other method the push
\* only appends; nothing else changes the share log.
C14_PplnsWindow ==
    [][ /\ \A call \in rs_calls :
              (/\ call.pc = "push"
               /\ rs_calls' = (rs_calls \ {call}) \cup {[call EXCEPT !.pc = "stats"]}) =>
              IF rd_config.method = "Pplns"
              THEN /\ shares' = LastN(Append(shares, call.share), rd_config.pplns_window)
                   /\ Len(shares') <= rd_config.pplns_window
              ELSE shares' = Append(shares, call.share)
        /\ shares' # shares =>
              \E call \in rs_calls :
                  /\ call.pc = "push"
                  /\ rs_calls' = (rs_calls \ {call}) \cup {[call EXCEPT !.pc = "stats"]}
      ]_vars

\* three record_share calls have returned under PPLNS and the oldest share is gone
C14_Witness ==
    /\ rd_config.method = "Pplns"
    /\ share_counter = 3
    /\ rs_calls = {}
    /\ share_ret.tag = "Ok"
    /\ Len(shares) = rd_config.pplns_window
    /\ \A i \in 1..Len(shares) : shares[i].id # 1

\* C15: after any sequence of record_block and update_confirmations calls,
\* every block in the block log is mature exactly when its confirmations
\* have reached maturity_confirmations.
C15_MatureIffConfirmed ==
    \A i \in 1..Len(blocks) :
        blocks[i].is_mature <=> blocks[i].confirmations >= rd_config.maturity_confirmations

\* C17: create_payout for a known worker whose pending balance is below
\* min_payout_sats returns none and leaves every worker, the payout list and
\* the payout id counter unchanged.
C17_BelowThresholdNoPayout ==
    [][ \A w \in WorkerIds :
          (/\ CreatePayoutDebit(w, "addr")
           /\ w \in DOMAIN rd_workers
           /\ rd_workers[w].pending_reward_sats < rd_config.min_payout_sats) =>
          /\ payout_ret' = RetNone
          /\ UNCHANGED <<rd_workers, payouts, payout_counter, cp_calls>>
      ]_vars

\* create_payout has returned none for a worker with a positive pending balance
C17_Witness ==
    /\ payout_ret = RetNone
    /\ \E w \in DOMAIN rd_workers :
          /\ rd_workers[w].pending_reward_sats > 0
          /\ rd_workers[w].pending_reward_sats < rd_config.min_payout_sats
    /\ payouts = << >>
    /\ cp_calls = {}

\* C18: a create_payout that returns Some(p) has, in its critical section
\* under the workers lock, taken the worker's whole pending balance as
\* p.amount_sats and set it to 0, with paid_reward_sats and every other worker
\* unchanged, and has, under the payouts lock, appended exactly one entry to
\* the payout list, which is p, with a new id and status Pending; the
\* payouts already in the list are unchanged.
C18_PayoutTakesPending ==
    [][ /\ \A w \in WorkerIds :
              (/\ CreatePayoutDebit(w, "addr")
               /\ w \in DOMAIN rd_workers
               /\ rd_workers[w].pending_reward_sats >= rd_config.min_payout_sats) =>
              /\ DOMAIN rd_workers' = DOMAIN rd_workers
              /\ rd_workers'[w].pending_reward_sats = 0
              /\ rd_workers'[w].paid_reward_sats = rd_workers[w].paid_reward_sats
              /\ \A v \in DOMAIN rd_workers \ {w} : rd_workers'[v] = rd_workers[v]
              /\ payouts' = payouts
              /\ \E p \in cp_calls' \ cp_calls :
                    /\ cp_calls' = cp_calls \cup {p}
                    /\ p.worker_id = w
                    /\ p.amount_sats = rd_workers[w].pending_reward_sats
                    /\ p.status = "Pending"
                    /\ p.txid = NoneOpt
                    /\ p.id = payout_counter'
        /\ \A p \in cp_calls :
              CreatePayoutPush(p) =>
              /\ payout_ret' = Some(p)
              /\ Len(payouts') = Len(payouts) + 1
              /\ \A i \in 1..Len(payouts) : payouts'[i] = payouts[i]
              /\ payouts'[Len(payouts')] = p
              /\ p.status = "Pending"
              /\ \A i \in 1..Len(payouts) : payouts[i].id # p.id
              /\ rd_workers' = rd_workers
        /\ (payout_ret' # payout_ret /\ payout_ret'.tag = "Some") =>
              \E p \in cp_calls : CreatePayoutPush(p)
      ]_vars

\* create_payout has returned a payout of the whole balance credited to the worker
C18_Witness ==
    /\ payout_ret.tag = "Some"
    /\ payouts # << >>
    /\ payouts[Len(payouts)] = payout_ret.val
    /\ payout_ret.val.status = "Pending"
    /\ payout_ret.val.amount_sats = credited[payout_ret.val.worker_id]
    /\ payout_ret.val.amount_sats > 0
    /\ rd_workers[payout_ret.val.worker_id].pending_reward_sats = 0

RECURSIVE PayoutSum(_, _, _)
\* the sum of amount_sats over the payouts of q for worker w that satisfy the
\* status test: "Completed" counts the completed ones, "any" counts all
PayoutSum(q, w, status) ==
    IF q = << >> THEN 0
    ELSE (IF Head(q).worker_id = w /\ (status = "any" \/ Head(q).status = status)
          THEN Head(q).amount_sats ELSE 0) + PayoutSum(Tail(q), w, status)

\* C19: complete_payout adds the amount of a payout to the worker's
\* paid_reward_sats exactly once: after any sequence of complete_payout calls
\* each worker's paid_reward_sats equals the sum of amount_sats of that
\* worker's Completed payouts.
C19_PaidEqualsCompleted ==
    \A w \in DOMAIN rd_workers :
        rd_workers[w].paid_reward_sats = PayoutSum(payouts, w, "Completed")

RECURSIVE InFlightSum(_, _)
\* the sum of amount_sats over the payouts of the set S that are for worker w
InFlightSum(S, w) ==
    IF S = {} THEN 0
    ELSE LET p == CHOOSE x \in S : TRUE
         IN (IF p.worker_id = w THEN p.amount_sats ELSE 0) + InFlightSum(S \ {p}, w)

\* C20: every payout ever created, in the payout list or still held by a
\* create_payout call, has amount_sats >= min_payout_sats, and no pending
\* balance is paid out twice under any interleaving of create_payout and
\* distribute_rewards: what was credited to a worker is always its pending
\* balance plus the amounts of its payouts.
C20_PayoutsAboveThresholdOnce ==
    /\ \A i \in 1..Len(payouts) : payouts[i].amount_sats >= rd_config.min_payout_sats
    /\ \A p \in cp_calls : p.amount_sats >= rd_config.min_payout_sats
    /\ \A w \in DOMAIN rd_workers :
          credited[w] = rd_workers[w].pending_reward_sats
                        + PayoutSum(payouts, w, "any") + InFlightSum(cp_calls, w)

\* a second create_payout for the same worker has returned none while the
\* first, which took the balance, has not yet appended its payout
C20_Witness ==
    /\ DOMAIN rd_workers = {"w1"}
    /\ \E p \in cp_calls : p.worker_id = "w1" /\ p.amount_sats = credited["w1"]
    /\ payout_ret = RetNone
    /\ rd_workers["w1"].pending_reward_sats = 0

\* the accepted shares in the share log: each gives at most one floored term
AcceptedCount == Cardinality({i \in 1..Len(shares) : shares[i].accepted})

\* distributable(h) of the first block recorded with height h
DistributableAt(h) ==
    LET b == blocks[FindBlock(blocks, h)]
        total == b.reward_sats + b.fees_sats
    IN total - ((total * rd_config.pool_fee_percent) \div 100)

RECURSIVE PendingSum(_)
\* the pending balances of all workers together
PendingSum(ws) ==
    IF DOMAIN ws = {} THEN 0
    ELSE LET w == CHOOSE w \in DOMAIN ws : TRUE
         IN ws[w].pending_reward_sats + PendingSum(MapRemove(ws, w))

C21_EveryCallReturns ==
    \A t \in LockThreads : (lk_pc[t] # Returned) ~> (lk_pc[t] = Returned)

\* a create_payout has dropped the workers guard and waits for the payouts
\* guard, which a complete_payout holds while it waits for the workers
\* guard, which a third call holds
C21_Witness ==
    \E t, u, v \in LockThreads :
        /\ lk_pc[t].op = "create_payout"
        /\ lk_pc[t].todo = <<Acq("payouts"), Rel("payouts")>>
        /\ lk_pc[u].op = "complete_payout"
        /\ lk_held["payouts"] = u
        /\ Head(lk_pc[u].todo) = Acq("workers")
        /\ lk_held["workers"] = v
        /\ v \notin {t, u}

\* the claim as it was stated: for every recorded block and every pool fee in
\* [0, 100] percent the amount calculate_rewards distributes is
\* floor(total_sats * (1 - pool_fee_percent / 100)); it never exceeds
\* total_sats and the subtraction of the fee never underflows.
C22_FloorOfRemainder ==
    \A i \in 1..Len(blocks) :
        LET total == blocks[i].reward_sats + blocks[i].fees_sats
        IN /\ distributable_of(rd_config, blocks[i]) =
                (total * (100 - rd_config.pool_fee_percent)) \div 100
           /\ distributable_of(rd_config, blocks[i]) <= total
           /\ (total * rd_config.pool_fee_percent) \div 100 <= total

\* C22: for every recorded block and every pool fee of a whole number of
\* percent in [0, 100] the amount calculate_rewards distributes is total_sats
\* minus the floored fee floor(total_sats * pool_fee_percent / 100), that is
\* total_sats * (1 - pool_fee_percent / 100) rounded up, not down; it never
\* exceeds total_sats, the subtraction never underflows, and under Solo this
\* amount is what the finder is given.
C22_TotalMinusFlooredFee ==
    [][ /\ \A i \in 1..Len(blocks') :
              LET total == blocks'[i].reward_sats + blocks'[i].fees_sats
                  fee == (total * rd_config'.pool_fee_percent) \div 100
                  left == total * (100 - rd_config'.pool_fee_percent)
                  d == distributable_of(rd_config', blocks'[i])
              IN /\ d = total - fee
                 /\ fee <= total
                 /\ d <= total
                 /\ d = (left + 99) \div 100
        /\ \A h \in Heights :
              (/\ CalculateRewards(h)
               /\ calc_ret'.tag = "Ok"
               /\ rd_config.method = "Solo"
               /\ DOMAIN calc_ret'.val # {}) =>
              LET b == blocks[FindBlock(blocks, h)]
                  total == b.reward_sats + b.fees_sats
              IN MapSum(calc_ret'.val) =
                    total - (total * rd_config.pool_fee_percent) \div 100
      ]_vars

\* under Solo a finder was given the whole of a block whose fee is not a whole
\* number of sats: more than the floor of what the fee leaves
C22_Witness ==
    /\ rd_config.method = "Solo"
    /\ calc_ret.tag = "Ok"
    /\ DOMAIN calc_ret.val # {}
    /\ \E i \in 1..Len(blocks) :
          LET total == blocks[i].reward_sats + blocks[i].fees_sats
          IN /\ (total * rd_config.pool_fee_percent) % 100 # 0
             /\ MapSum(calc_ret.val) = total - (total * rd_config.pool_fee_percent) \div 100
             /\ MapSum(calc_ret.val) > (total * (100 - rd_config.pool_fee_percent)) \div 100

RECURSIVE KeptShares(_, _, _)
\* the first n accepted shares of q with block_height <= h, in log order
KeptShares(q, h, n) ==
    IF q = << >> \/ n = 0 THEN << >>
    ELSE IF Head(q).accepted /\ Head(q).block_height <= h
         THEN <<Head(q)>> \o KeptShares(Tail(q), h, n - 1)
         ELSE KeptShares(Tail(q), h, n)

RECURSIVE DiffSum(_)
\* the sum of the difficulties of the shares of q
DiffSum(q) == IF q = << >> THEN 0 ELSE Head(q).difficulty + DiffSum(Tail(q))

RECURSIVE ExactShareOf(_, _, _, _)
\* the sum over the shares of q of worker w of floor(d * diff / whole)
ExactShareOf(q, w, d, whole) ==
    IF q = << >> THEN 0
    ELSE (IF Head(q).worker_id = w THEN (d * Head(q).difficulty) \div whole ELSE 0)
         + ExactShareOf(Tail(q), w, d, whole)

\* C23: with method PPLNS, calculate_rewards(h) for a recorded block keeps the
\* first pplns_window accepted shares of the log with block_height <= h and
\* returns for each worker the sum over that worker's kept shares of
\* floor(distributable * diff / sum of the kept diffs); rejected shares and
\* shares recorded at a greater height contribute nothing.
C23_PplnsExactFloor ==
    [][ \A h \in Heights :
          (/\ CalculateRewards(h)
           /\ calc_ret'.tag = "Ok"
           /\ rd_config.method = "Pplns") =>
          LET kept == KeptShares(shares, h, rd_config.pplns_window)
              d == DistributableAt(h)
              r == calc_ret'.val
          IN /\ DOMAIN r = {kept[i].worker_id : i \in 1..Len(kept)}
             /\ \A w \in DOMAIN r : r[w] = ExactShareOf(kept, w, d, DiffSum(kept))
      ]_vars

\* the claim as it was stated: with method PPS, calculate_rewards(h) returns
\* an empty reward map for every height h, whichever blocks have been
\* recorded, and changes no distributor state.
C24_PpsEmptyForEveryHeight ==
    [][ \A h \in Heights :
          (CalculateRewards(h) /\ rd_config.method = "Pps") =>
          /\ calc_ret'.tag = "Ok"
          /\ DOMAIN calc_ret'.val = {}
          /\ UNCHANGED <<rd_config, rd_workers, shares, blocks, payouts, share_counter,
                         payout_counter, current_height>>
      ]_vars

\* C24: with method PPS, calculate_rewards(h) returns an empty reward map for
\* every height h at which a block has been recorded, whatever that block and
\* the share log hold, and a Configuration error for a height with no
\* recorded block; in both cases it changes no distributor state.
C24_PpsEmptyForRecordedBlock ==
    [][ \A h \in Heights :
          (CalculateRewards(h) /\ rd_config.method = "Pps") =>
          /\ IF \E i \in 1..Len(blocks) : blocks[i].height = h
             THEN calc_ret'.tag = "Ok" /\ DOMAIN calc_ret'.val = {}
             ELSE calc_ret' = Err("Configuration")
          /\ UNCHANGED <<rd_config, rd_workers, shares, blocks, payouts, share_counter,
                         payout_counter, current_height>>
      ]_vars

\* under PPS an empty map was returned for a recorded block with sats to
\* distribute, while the log holds an accepted share
C24_Witness ==
    /\ rd_config.method = "Pps"
    /\ calc_ret.tag = "Ok"
    /\ DOMAIN calc_ret.val = {}
    /\ AcceptedCount > 0
    /\ \E i \in 1..Len(blocks) : blocks[i].reward_sats + blocks[i].fees_sats > 0

\* the balances of worker w in the worker map ws; a worker that is not in
\* the map has none
PendingOf(ws, w) == IF w \in DOMAIN ws THEN ws[w].pending_reward_sats ELSE 0
PaidOf(ws, w) == IF w \in DOMAIN ws THEN ws[w].paid_reward_sats ELSE 0

\* C25: pending_reward_sats and paid_reward_sats of every worker are changed
\* only by distribute_rewards (pending increases), create_payout (pending set
\* to 0) and complete_payout (paid increases); register_worker, record_share,
\* record_block, update_confirmations, calculate_rewards, set_block_height
\* and pool_stats leave every balance unchanged: a step that changes a
\* balance is a step of one of the three operations, in the direction named.
C25_BalancesFrame ==
    [][ /\ \A w \in WorkerIds :
             PendingOf(rd_workers', w) # PendingOf(rd_workers, w) =>
             \/ /\ \E r \in CalculatedRewards \cup {DirectRewards} : DistributeRewards(r)
                /\ PendingOf(rd_workers', w) > PendingOf(rd_workers, w)
             \/ /\ CreatePayoutDebit(w, "addr")
                /\ PendingOf(rd_workers', w) = 0
        /\ \A w \in WorkerIds :
             PaidOf(rd_workers', w) # PaidOf(rd_workers, w) =>
             /\ \E id \in PayoutIdInputs : CompletePayout(id, "tx0")
             /\ PaidOf(rd_workers', w) > PaidOf(rd_workers, w)
      ]_vars

\* a worker was credited, its payout was created and completed, and
\* pool_stats reports the sats paid
C25_Witness ==
    /\ \E w \in DOMAIN rd_workers :
          /\ rd_workers[w].paid_reward_sats > 0
          /\ rd_workers[w].pending_reward_sats = 0
    /\ stats_ret.tag = "Ok"
    /\ stats_ret.val.total_paid_sats > 0

\* the stored state an operation that fails must leave alone
StoredUnchanged ==
    UNCHANGED <<rd_workers, shares, blocks, payouts, share_counter, payout_counter>>

\* C26: every RewardDistributor operation that names a worker, block or
\* payout that does not exist (create_payout for an unknown worker,
\* calculate_rewards and update_confirmations for a height with no recorded
\* block, complete_payout for an unknown payout id) returns an error to the
\* caller and leaves workers, shares, blocks, payouts and both id counters
\* unchanged.
C26_UnknownNamesRejected ==
    [][ /\ \A w \in WorkerIds :
             (CreatePayoutDebit(w, "addr") /\ w \notin DOMAIN rd_workers) =>
             payout_ret'.tag = "Err" /\ StoredUnchanged
        /\ \A h \in Heights :
             (CalculateRewards(h) /\ FindBlock(blocks, h) = 0) =>
             calc_ret'.tag = "Err" /\ StoredUnchanged
        /\ \A h \in Heights, c \in ConfirmationInputs :
             (UpdateConfirmations(h, c) /\ FindBlock(blocks, h) = 0) =>
             confirm_ret'.tag = "Err" /\ StoredUnchanged
        /\ \A id \in PayoutIdInputs :
             (CompletePayout(id, "tx0") /\ FindPayout(payouts, id) = 0) =>
             complete_ret'.tag = "Err" /\ StoredUnchanged
      ]_vars

\* x is 0.0, 1.0 or an f64 between them
InUnit(x) == x = F64Zero \/ x = F64One \/ x.e < 0 - 52

\* the claim as it was stated: the acceptance rate of every worker lies in
\* [0, 1] and is 1.0 exactly when the worker has submitted no share.
C27_OneOnlyWithoutShares ==
    \A w \in DOMAIN rd_workers :
       /\ rd_workers[w].shares_accepted <= rd_workers[w].shares_submitted
       /\ InUnit(worker_acceptance_rate(rd_workers[w]))
       /\ worker_acceptance_rate(rd_workers[w]) = F64One <=> rd_workers[w].shares_submitted = 0

\* C27: for every WorkerStats reachable through register_worker and
\* record_share, shares_accepted <= shares_submitted and acceptance_rate lies
\* in [0, 1]; it equals 1.0 exactly when no submitted share was rejected
\* (shares_accepted = shares_submitted), which includes the worker that has
\* submitted nothing.
C27_OneIffNothingRejected ==
    \A w \in DOMAIN rd_workers :
       /\ rd_workers[w].shares_accepted <= rd_workers[w].shares_submitted
       /\ rd_workers[w].shares_submitted =
            rd_workers[w].shares_accepted + rd_workers[w].shares_rejected
       /\ InUnit(worker_acceptance_rate(rd_workers[w]))
       /\ worker_acceptance_rate(rd_workers[w]) = F64One <=>
            rd_workers[w].shares_accepted = rd_workers[w].shares_submitted

\* one worker has accepted and rejected shares, a rate strictly between 0
\* and 1, and another worker is registered without any share
C27_Witness ==
    /\ \E w \in DOMAIN rd_workers :
          /\ rd_workers[w].shares_accepted > 0
          /\ rd_workers[w].shares_rejected > 0
          /\ worker_acceptance_rate(rd_workers[w]) \notin {F64Zero, F64One}
    /\ \E w \in DOMAIN rd_workers :
          /\ rd_workers[w].shares_submitted = 0
          /\ worker_acceptance_rate(rd_workers[w]) = F64One

\* ceil(cores * pct / 100)
CeilPercent(cores, pct) == (cores * pct + 99) \div 100

\* the claim as it was stated: effective_thread_count(cores) is
\* min(thread_count, cores) for an explicit thread count and otherwise
\* ceil(cores * max_cpu_percentage / 100) raised to at least 1, and lies
\* between 1 and cores.
C28_CeilOfPercentage ==
    thread_ret.tag = "Ok" =>
    /\ plug_config.thread_count > 0 =>
         thread_ret.val = Min(plug_config.thread_count, thread_ret.cores)
    /\ plug_config.thread_count = 0 =>
         thread_ret.val =
           Max(CeilPercent(thread_ret.cores, plug_config.max_cpu_percentage), 1)
    /\ thread_ret.val \in 1..thread_ret.cores

\* C28: effective_thread_count(cores) returns min(thread_count, cores) when
\* thread_count > 0; otherwise it returns the f64 product
\* cores * (max_cpu_percentage / 100.0) truncated to a whole number and raised
\* to at least 1: that is floor(cores * max_cpu_percentage / 100) raised to at
\* least 1 when cores * max_cpu_percentage is not a multiple of 100, and that
\* value or one less (never below 1) when it is. For every cores >= 1 and
\* max_cpu_percentage in 1..=100 the result lies between 1 and cores.
C28_TruncatedPercentage ==
    thread_ret.tag = "Ok" =>
    LET cores == thread_ret.cores
        pct == plug_config.max_cpu_percentage
        q == (cores * pct) \div 100
    IN /\ plug_config.thread_count > 0 =>
            thread_ret.val = Min(plug_config.thread_count, cores)
       /\ (plug_config.thread_count = 0 /\ (cores * pct) % 100 # 0) =>
            thread_ret.val = Max(q, 1)
       /\ (plug_config.thread_count = 0 /\ (cores * pct) % 100 = 0) =>
            thread_ret.val \in {Max(q, 1), Max(q - 1, 1)}
       /\ thread_ret.val \in 1..cores

\* auto-detect on 100 cores at 29 percent gave 28 threads: the f64 product
\* 28.999999999999996 was truncated
C28_Witness ==
    /\ thread_ret.tag = "Ok"
    /\ plug_config.thread_count = 0
    /\ plug_config.max_cpu_percentage = 29
    /\ thread_ret.cores = 100
    /\ thread_ret.val = 28

\* C29: whenever start_background_mining returns Ok, the plugin holds a
\* coordinator on which start(job) has been called, so is_mining() returns
\* true from then until stop_background_mining is called, whether or not a
\* pool client is connected.
C29_StartedMeansMining ==
    [][ /\ \A hw \in HardwareInputs :
             (StartBackgroundMining(hw) /\ plug_ret' = Ok) =>
             /\ coordinator' # NoneOpt
             /\ coordinator'[1].started
             /\ is_mining(coordinator')
        /\ (is_mining(coordinator) /\ ~StopBackgroundMining) => is_mining(coordinator')
      ]_vars

\* the fields of the plugin
PluginUnchanged == UNCHANGED <<plug_config, coordinator, stratum_client>>

\* C30: start_background_mining returns a Coordinator error and changes no
\* plugin state when the plugin already holds a coordinator, and a start that
\* fails for any reason leaves the plugin without a newly stored coordinator;
\* stop_background_mining clears the running flag of the held coordinator and
\* releases it, after which is_mining() is false and start_background_mining
\* is accepted again.
C30_StartStopErrors ==
    [][ /\ \A hw \in HardwareInputs :
             StartBackgroundMining(hw) =>
             /\ coordinator # NoneOpt => plug_ret' = Err("Coordinator") /\ PluginUnchanged
             /\ plug_ret'.tag = "Err" => PluginUnchanged
             /\ (coordinator = NoneOpt /\ is_suitable_for_mining(hw)) =>
                  plug_ret' = Ok /\ coordinator' # NoneOpt
             /\ coordinator = NoneOpt => plug_ret' # Err("Coordinator")
        /\ StopBackgroundMining =>
             /\ coordinator' = NoneOpt
             /\ ~is_mining(coordinator')
             /\ coordinator # NoneOpt =>
                  /\ released' # NoneOpt
                  /\ ~released'[1].running
                  /\ released'[1].config = coordinator[1].config
             /\ UNCHANGED <<plug_config, stratum_client>>
        /\ (IsMining /\ coordinator = NoneOpt) => plug_ret'.val = "false"
      ]_vars

\* a coordinator was stopped and released, a start on unsuitable hardware
\* failed, and a later start was accepted: the plugin holds a new coordinator
C30_Witness ==
    /\ released # NoneOpt
    /\ ~released[1].running
    /\ coordinator # NoneOpt
    /\ plug_ret = Ok
    /\ plug_ops = PlugMaxOps

\* the nonces worker w has hashed: every loop body hashes w.nonce and moves
\* to the next nonce
HashedBy(w) == w.start_nonce .. (w.nonce - 1)

\* C31: while the running flag stays true, each worker evaluates the target
\* check for every nonce of its assigned inclusive range
\* [start_nonce, end_nonce], so over all workers every nonce of the nonce
\* space is hashed and total_hashes reaches the size of the nonce space.
C31_WholeRangeHashed ==
    /\ \A w \in BagToSet(workers) :
          w.pc = "flush" => (w.start_nonce .. w.end_nonce) \subseteq HashedBy(w)
    /\ (workers = EmptyBag /\ starts_ok = 1 /\ \A c \in Callers : callers[c] = "idle") =>
          total_hashes = NonceMod

\* C32: every worker terminates after finitely many nonce steps even if
\* stop() is never called: each step moves its nonce up by exactly one, never
\* past the end of its range or of the nonce space, and every worker that
\* was spawned exits.
C32_WorkersTerminate ==
    /\ [][ \A w \in BagToSet(workers) :
             WorkerBody(w) =>
             /\ w.nonce < w.end_nonce
             /\ \E w2 \in BagToSet(workers') :
                   /\ w2.start_nonce = w.start_nonce
                   /\ w2.end_nonce = w.end_nonce
                   /\ w2.nonce = w.nonce + 1
                   /\ w2.nonce <= NonceMax
         ]_vars
    /\ (workers # EmptyBag) ~> (workers = EmptyBag)

\* workers were spawned, hashed to the end of their ranges and exited, and
\* stop was never called
C32_Witness ==
    /\ workers = EmptyBag
    /\ starts_ok >= 1
    /\ iters >= 3
    /\ running

\* C33: the running flag is written only by start (to true) and stop (to
\* false); no worker step writes it, so when all workers have exhausted their
\* ranges without a stop the flag is still true, and a start that finds it
\* true returns the already-running error and spawns nothing.
C33_FlagOnlyByStartStop ==
    [][ /\ running' # running =>
             \/ (\E c \in Callers : StartStore(c)) /\ running'
             \/ (\E c \in Callers : Stop(c)) /\ ~running'
        /\ WorkerStep => running' = running
        /\ \A c \in Callers :
             (StartCheck(c) /\ running) =>
             /\ call_ret' = "Err"
             /\ UNCHANGED <<running, workers, callers, starts_ok>>
      ]_vars

\* one start succeeded, its workers hashed and all exited, no stop was called
\* since, the flag is still true and a further start was refused
C33_Witness ==
    /\ workers = EmptyBag
    /\ starts_ok = 1
    /\ iters > 0
    /\ running
    /\ call_ret = "Err"
    /\ \A c \in Callers : callers[c] = "idle"

\* C34: when no PoolManager call is part-way through, the active pool id is none or the
\* id of a pool in the registry, whatever the interleaving of the add_pool, remove_pool,
\* set_active_pool and failover calls that have returned
C34_ActiveIsRegistered ==
    (\A t \in PoolThreads : pm_calls[t].pc = "idle")
        => (active_pool = None \/ active_pool \in DOMAIN pools)

\* the set of the elements of a sequence
Range(q) == { q[i] : i \in DOMAIN q }

\* C35 (as amended): the pool that failover makes active is one whose status is neither
\* Failed nor Disabled, whatever its acceptance rate; and a health_check lists every
\* registered pool id exactly once, in healthy_pools exactly if its acceptance rate is at
\* least min_acceptance_rate and its status is neither Failed nor Disabled
C35_FailoverPicksCandidate ==
    /\ [][\A reason \in Reasons :
            (Failover(reason) /\ pm_ret'.tag = "Some")
                => /\ active_pool' = pm_ret'.val
                   /\ active_pool' \in DOMAIN pools'
                   /\ pools'[active_pool'].status.kind \notin {"Failed", "Disabled"}]_vars
    /\ [](pm_ret.tag = "Health" =>
            LET h == pm_ret.healthy_pools
                u == pm_ret.unhealthy_pools
            IN /\ Len(h) + Len(u) = Cardinality(DOMAIN pools)
               /\ Range(h) \cup Range(u) = DOMAIN pools
               /\ Range(h) = { id \in DOMAIN pools :
                                 /\ pools[id].shares_submitted = 0
                                      \/ 100 * pools[id].shares_accepted
                                             >= 95 * pools[id].shares_submitted
                                 /\ pools[id].status.kind \notin {"Failed", "Disabled"} })

\* C35 witness: after a failover a health_check lists the pool made active as unhealthy,
\* although its status is neither Failed nor Disabled
C35_Witness ==
    /\ pm_ret.tag = "Health"
    /\ failover_history # << >>
    /\ active_pool = failover_history[Len(failover_history)].to_pool
    /\ active_pool \in Range(pm_ret.unhealthy_pools)
    /\ pools[active_pool].status.kind \notin {"Failed", "Disabled"}

\* C35 (as stated): the pool that failover makes active is one that health_check lists as
\* healthy: acceptance rate at least min_acceptance_rate, status not Failed or Disabled
C35_FailoverPicksHealthy ==
    [][\A reason \in Reasons :
          (Failover(reason) /\ pm_ret'.tag = "Some")
              => /\ active_pool' \in DOMAIN pools'
                 /\ is_healthy(pools'[active_pool'])]_vars

\* C36: when no record call is part-way through, the retained samples are in
\* non-decreasing timestamp order, so that the last sample of the deque is the one
\* taken most recently
C36_SamplesInTimeOrder ==
    (\A t \in MonThreads : mon_calls[t].pc = "idle")
        => \A i, j \in DOMAIN samples : i < j => samples[i].timestamp <= samples[j].timestamp

\* C37: reset empties the sample deque and the alert log, sets the peak to 0 and the
\* minimum to unset, so that statistics() then reports sample_count 0 and every rate 0,
\* and leaves last_sample_time, last_hash_count and start_time as they were; the first
\* sample recorded into the emptied deque has hashes = the recorded count minus
\* (saturating) the count of the last sample taken, the reset notwithstanding
C37_ResetKeepsBaseline ==
    /\ [][Reset =>
            /\ samples' = << >>
            /\ alerts' = << >>
            /\ peak_hash_rate' = 0
            /\ min_hash_rate' = F64Max
            /\ LET st == statistics(samples', peak_hash_rate', min_hash_rate')
               IN /\ st.sample_count = 0
                  /\ st.current = 0 /\ st.rate_sum = 0 /\ st.peak = 0 /\ st.minimum = 0
            /\ UNCHANGED <<last_sample_time, last_hash_count, start_time>>]_vars
    /\ [][\A c \in HashCounts :
            (Record(c) /\ samples = << >> /\ mon_ret' # NoneOpt)
                => /\ samples' = << mon_ret'[1] >>
                   /\ samples'[1].hashes = IF c >= last_hash_count
                                            THEN c - last_hash_count ELSE 0]_vars

\* C37 witness: the only sample since the reset counts the one hash made since the
\* sample of count 5 that was taken before the reset
C37_Witness ==
    /\ Len(samples_added) = 1
    /\ samples = samples_added
    /\ samples[1].hashes = 1
    /\ last_hash_count = 6
    /\ peak_hash_rate = hash_rate(samples[1])

\* C38: the share log is ordered by strictly increasing share id, whatever the
\* interleaving of the record_share calls
C38_LogOrderedById ==
    \A i, j \in 1..Len(shares) : i < j => shares[i].id < shares[j].id

\* C39: in every state, also while a create_payout or complete_payout call is under way,
\* what distribute_rewards has credited to a worker equals the worker's
\* pending_reward_sats plus its paid_reward_sats plus the amount_sats of its payouts in
\* the payout list that are not Completed
C39_CreditedConserved ==
    \A w \in DOMAIN rd_workers :
        credited[w] = rd_workers[w].pending_reward_sats
                      + rd_workers[w].paid_reward_sats
                      + (PayoutSum(payouts, w, "any") - PayoutSum(payouts, w, "Completed"))

\* C40: every WorkerStats in the worker map has worker_id equal to the key it is stored
\* under, whether register_worker or record_share created the entry
C40_WorkerIdIsKey ==
    \A w \in DOMAIN rd_workers : rd_workers[w].worker_id = w
====
